---- MODULE Spec2Model ----
(***************************************************************************)
(* Beach-volleyball rating system: the Elo rating engine                   *)
(* (src/src/modules/elo.js), the Italian-points standings engine           *)
(* (calculateStandings of the tournament page module) with its win/loss    *)
(* predecessor, the data manager that parses a tournament file, the        *)
(* helper functions that exist in a page and a server implementation,      *)
(* the import script that writes a tournament file into the SQLite         *)
(* database in one transaction, the server's getOrCreatePlayer and         *)
(* getSeasonRating, and the filters and pagination of the rating page      *)
(* (src/src/modules/ui.js).                                                *)
(*                                                                         *)
(* JavaScript runs every call to completion, so the two engines never      *)
(* interleave: the model is a single thread that is either idle (between   *)
(* calls and UI events) or inside one call, stepping through its loops.    *)
(* The import script and the server module are two processes on one        *)
(* database file: their SQL statements interleave.                         *)
(***************************************************************************)
EXTENDS Integers, Sequences, FiniteSets, TLC

VARIABLES
    matches,            \* argument of processAllMatches (ordered, draw-free)
    groupMatches,       \* argument of calculateStandings (one group's raw matches)
    pc,                 \* "idle" or the position inside the running call
    events,             \* number of calls and clicks started so far
    i,                  \* index of the forEach loop of the running call
    playerRatings,      \* elo.js: Map player id -> rating
    playerGames,        \* elo.js: Map player id -> games played
    playerHistory,      \* elo.js: Map player id -> array of snapshots
    playerOrder,        \* insertion order of the three Maps (same keys)
    ratingChanges,      \* elo.js: result of processMatch for matches[i]
    processedMatches,   \* elo.js: array of annotated matches
    players,            \* elo.js: the players array being built
    eloResults,         \* values returned by the processAllMatches calls
    stI,                \* calculateStandings: index of its forEach loop
    stPlayers,          \* calculateStandings: Map player name -> row
    stOrder,            \* insertion order of stPlayers
    standingsResults,   \* values returned by the calculateStandings calls
    currentGenderFilter, \* module-level filter of the tournament page
    rawData,            \* the tournament JSON both pages import
    rawTournamentDataStore, \* dataManager.js: <<>> (null) or <<raw data>>
    leagueIdx,          \* parseRawTournamentData: index of leagues.forEach
    groupIdx,           \* parseRawTournamentData: index of groups.forEach
    matchIdx,           \* parseRawTournamentData: index of matches.forEach
    winLossResults,     \* values returned by the win/loss calculateStandings
    fnArgs,             \* arguments of the helper function under call
    fnResults,          \* results of the helper functions, by implementation
    db,                 \* the SQLite database as the import script sees it
    dbBefore,           \* the committed database while a transaction is open
    playerCache,        \* import script: Map name -> player id
    importArgs,         \* <<>> or <<the arguments of importTournament>>
    imp,                \* importTournament: its ids and loop indices
    importOutcomes,     \* Map run -> how its importTournament call ended
    playerCalls,        \* the getOrCreatePlayer calls: name, returned id, path
    seasonRating,       \* <<>> or <<the value the last getSeasonRating returned>>
    srv,                \* server module: the call it is in, between statements
    currentData,        \* ui.js: <<>> or <<the data given to initUI>>
    filteredPlayers,    \* ui.js: the players that pass search and league filter
    currentPage,        \* ui.js: the page of the rating table
    searchValue,        \* value of the search input
    leagueFilterValue,  \* value of the league select
    paginationControls  \* the buttons renderPagination has put on the page

vars == <<matches, groupMatches, pc, events, i, playerRatings, playerGames,
          playerHistory, playerOrder, ratingChanges, processedMatches,
          players, eloResults, stI, stPlayers, stOrder, standingsResults,
          currentGenderFilter, rawData, rawTournamentDataStore,
          leagueIdx, groupIdx, matchIdx,
          winLossResults, fnArgs, fnResults,
          db, dbBefore, playerCache, importArgs, imp, importOutcomes,
          playerCalls, seasonRating, srv,
          currentData, filteredPlayers, currentPage, searchValue,
          leagueFilterValue, paginationControls>>

serverVars == <<db, dbBefore, playerCache, importArgs, imp, importOutcomes,
                playerCalls, seasonRating, srv>>
ratingPageVars == <<currentData, filteredPlayers, currentPage, searchValue,
                    leagueFilterValue, paginationControls>>
parseLocals == <<leagueIdx, groupIdx, matchIdx>>
\* State of the modules an engine call does not touch.
otherModules == <<rawData, rawTournamentDataStore, parseLocals,
                  winLossResults, fnArgs, fnResults, serverVars,
                  ratingPageVars>>
eloLocals == <<i, playerRatings, playerGames, playerHistory, playerOrder,
               ratingChanges, processedMatches, players>>
stLocals == <<stI, stPlayers, stOrder>>

(***************************************************************************)
(* Bounds of the model.                                                    *)
(***************************************************************************)
MaxMatches == 2      \* longest freely chosen match list
MaxEvents == 2       \* calls and clicks in one behaviour
MaxTail == 1         \* freely chosen matches after a long calibration run

(***************************************************************************)
(* Constants of elo.js.                                                    *)
(***************************************************************************)
INITIAL_RATING == 1500
K_FACTOR_DEFAULT == 32
K_FACTOR_CALIBRATION == 40
CALIBRATION_GAMES == 15

NULL == "null"
EmptyMap == <<>>

(***************************************************************************)
(* Players.  A player is identified by a name; the model writes a name as  *)
(* a short handle and keeps its spelling in FullName: the words that       *)
(* fullName.split(' ') yields, each word a sequence of letters (Cyrillic   *)
(* letters are written by their Latin names, "ya" = U+044F, "soft" =       *)
(* U+044C, "j" = U+0439).                                                  *)
(***************************************************************************)
Players == {"A", "B", "C", "D", "E", "F", "G", "H", "I", "J", "K"}

FullName ==
    [A |-> << <<"I","v","a","n","o","v">>, <<"N","i","k","i","t","a">> >>,
     B |-> << <<"P","e","t","r","o","v","a">>, <<"A","n","n","a">> >>,
     C |-> << <<"S","i","d","o","r","o","v">>, <<"O","l","e","g">> >>,
     D |-> << <<"K","u","z","n","e","c","o","v","a">>, <<"M","a","j","ya">> >>,
     E |-> << <<"S","m","i","r","n","o","v">>, <<"I","l","soft","ya">> >>,
     F |-> << <<"P","r","e","o","b","r","a","zh","e","n","s","k","a","ya">>,
              <<"E","k",".">> >>,
     G |-> << <<"P","r","e","o","b","r","a","zh","e","n","s","k","a","ya">>,
              <<"E","k","a","t","e","r","i","n","a">> >>,
     H |-> << <<"P","o","d","k","o","v","y","r","i","n","a">>,
              <<"V","a","s",".">> >>,
     I |-> << <<"P","o","d","k","o","v","y","r","i","n","a">>,
              <<"V","a","s","i","l","i","s","a">> >>,
     J |-> << <<"Z","a","h","a","r","ch","e","n","k","o">>, <<"V","l",".">> >>,
     K |-> << <<"Z","a","h","a","r","ch","e","n","k","o">>,
              <<"V","l","a","d","i","m","i","r">> >>]

(***************************************************************************)
(* Inputs.  A raw match of a group: two teams of two distinct players, no  *)
(* player on both teams, and a score.  The match lists handed to the       *)
(* engines are drawn from sequences over this universe.                    *)
(***************************************************************************)
\* A date 'YYYY-MM-DD' is written <<YYYY, MM, DD>>.
Date1 == <<2025, 1, 25>>
Date2 == <<2025, 2, 8>>

MatchABvCD == [team1 |-> <<"A","B">>, team2 |-> <<"C","D">>, score |-> <<21,15>>, date |-> Date1]
MatchCDvAB == [team1 |-> <<"A","B">>, team2 |-> <<"C","D">>, score |-> <<19,21>>, date |-> Date1]
MatchCAvDB == [team1 |-> <<"C","A">>, team2 |-> <<"D","B">>, score |-> <<21,19>>, date |-> Date1]
MatchACvDE == [team1 |-> <<"D","E">>, team2 |-> <<"A","C">>, score |-> <<15,21>>, date |-> Date2]
MatchDraw == [team1 |-> <<"B","A">>, team2 |-> <<"D","C">>, score |-> <<15,15>>, date |-> Date2]

MatchUniverse == {MatchABvCD, MatchCDvAB, MatchCAvDB, MatchACvDE, MatchDraw}

\* The matches that may follow a calibration run.
TailUniverse == {MatchABvCD, MatchACvDE}

\* Identifiers of the matches of a list, by position.
MatchIds == <<"m1","m2","m3","m4","m5","m6","m7","m8","m9","m10",
              "m11","m12","m13","m14","m15","m16","m17","m18","m19","m20">>

SeqsUpTo(S, n) == UNION { [1..k -> S] : k \in 0..n }

\* The calibration run: after a first match without B, the same four
\* players meet again and again, so B stays one match behind the others.
CalibrationRun(n) ==
    [k \in 1..n |->
        IF k = 1 THEN [MatchACvDE EXCEPT !.date = Date1]
        ELSE IF k % 3 = 0 THEN MatchCAvDB
        ELSE IF k % 3 = 1 THEN MatchABvCD
        ELSE MatchCDvAB]

\* Short lists of any shape, given to both engines; and calibration runs
\* with a short tail, given to the Elo engine.
ShortInputs == SeqsUpTo(MatchUniverse, MaxMatches)
LongInputs ==
    { CalibrationRun(n) \o t :
        n \in {CALIBRATION_GAMES - 1, CALIBRATION_GAMES},
        t \in SeqsUpTo(TailUniverse, MaxTail) }

\* A group's raw match list: every match gets its id.
RawGroup(us) ==
    [k \in 1..Len(us) |->
        [id |-> MatchIds[k], team1 |-> us[k].team1, team2 |-> us[k].team2,
         score |-> us[k].score, date |-> us[k].date]]

IsDraw(m) == m.score[1] = m.score[2]

\* The match list the Elo engine is given: draws are excluded upstream and
\* winner is 1 if score1 > score2 else 2 (data contract of a Match).
RECURSIVE EloInput(_)
EloInput(raw) ==
    IF raw = <<>> THEN <<>>
    ELSE LET m == Head(raw)
             rec == [id |-> m.id, date |-> m.date, team1 |-> m.team1,
                     team2 |-> m.team2, score |-> m.score,
                     winner |-> IF m.score[1] > m.score[2] THEN 1 ELSE 2]
         IN  IF IsDraw(m) THEN EloInput(Tail(raw))
             ELSE <<rec>> \o EloInput(Tail(raw))

(***************************************************************************)
(* The Elo arithmetic.  Ratings are integers and a team's average is a     *)
(* multiple of 1/2, so the model carries team ratings doubled.  With       *)
(* d2 = 2 * (opponentTeamRating - playerRating), a winner's change is      *)
(*     Math.round(K * (1 - 1 / (1 + 10^(d2/800)))),                        *)
(* which is non-decreasing in d2 and lies in 0..K: it is at least c        *)
(* exactly when d2 >= 800 * log10((2c - 1) / (2K - 2c + 1)).  The tables   *)
(* hold the least such integer d2 for c = 1..K, for the two K-factors the  *)
(* program uses.  K * (S - E) is a tie of Math.round only at d2 = 0, where *)
(* it is the integer K/2 or -K/2.  A loser's change at d2 is minus the     *)
(* winner's change at -d2, since E(d2) = 1 - E(-d2).                       *)
(***************************************************************************)
RoundThreshold40 ==
    <<-1518, -1127, -940, -814, -717, -637, -569, -509, -455, -405,
      -358, -315, -273, -234, -196, -159, -122, -87, -52, -17,
      18, 53, 88, 123, 160, 197, 235, 274, 316, 359,
      406, 456, 510, 570, 638, 718, 815, 941, 1128, 1519>>

RoundThreshold32 ==
    <<-1439, -1046, -857, -728, -628, -546, -474, -411, -353, -299,
      -248, -200, -154, -109, -65, -21, 22, 66, 110, 155,
      201, 249, 300, 354, 412, 475, 547, 629, 729, 858,
      1047, 1440>>

\* Math.round(K * (1 - E)) for K in {40, 32}, as a function of d2.
RoundedGain(K, d2) ==
    LET t == IF K = K_FACTOR_CALIBRATION THEN RoundThreshold40 ELSE RoundThreshold32
    IN  Cardinality({ c \in 1..K : d2 >= t[c] })

\* Variants of getKFactor with the boundary moved by one game.
getKFactorInclusive(gamesPlayed) ==
    IF gamesPlayed <= CALIBRATION_GAMES THEN K_FACTOR_CALIBRATION ELSE K_FACTOR_DEFAULT

getKFactorEarly(gamesPlayed) ==
    IF gamesPlayed < CALIBRATION_GAMES - 1 THEN K_FACTOR_CALIBRATION ELSE K_FACTOR_DEFAULT

getKFactor(gamesPlayed) ==
    IF gamesPlayed < CALIBRATION_GAMES THEN K_FACTOR_CALIBRATION ELSE K_FACTOR_DEFAULT

\* Variant of calculateRatingChange: a loss is always rated with the
\* default K-factor.
calculateRatingChangeLossDefaultK(playerRating, opponentTeamRating2, isWinner, gamesPlayed) ==
    LET d2 == opponentTeamRating2 - 2 * playerRating
    IN  IF isWinner THEN RoundedGain(getKFactor(gamesPlayed), d2)
        ELSE 0 - RoundedGain(K_FACTOR_DEFAULT, 0 - d2)

\* Variant of calculateRatingChange: a loss is reported by its size, without
\* the sign.
calculateRatingChangeUnsignedLoss(playerRating, opponentTeamRating2, isWinner, gamesPlayed) ==
    LET d2 == opponentTeamRating2 - 2 * playerRating
        kFactor == getKFactor(gamesPlayed)
    IN  IF isWinner THEN RoundedGain(kFactor, d2)
        ELSE RoundedGain(kFactor, 0 - d2)

\* opponentTeamRating2 is the opponent team's average rating, doubled.
calculateRatingChange(playerRating, opponentTeamRating2, isWinner, gamesPlayed) ==
    LET d2 == opponentTeamRating2 - 2 * playerRating
        kFactor == getKFactor(gamesPlayed)
    IN  IF isWinner THEN RoundedGain(kFactor, d2)
        ELSE 0 - RoundedGain(kFactor, 0 - d2)

\* (rating1 + rating2) / 2, doubled.
calculateTeamRating(rating1, rating2) == rating1 + rating2

\* map.get(key) || dflt : a missing key and a stored 0 both give dflt.
GetOr(map, key, dflt) ==
    IF key \in DOMAIN map /\ map[key] # 0 THEN map[key] ELSE dflt

\* The four participants in the order [...team1, ...team2].
Participants(match) == match.team1 \o match.team2

Range(s) == { s[k] : k \in DOMAIN s }

\* Variant of processMatch that rates team 2 against the ratings team 1
\* has after its own changes of this match.
processMatchSequential(match, ratings, games) ==
    LET team1 == match.team1
        team2 == match.team2
        r11 == GetOr(ratings, team1[1], INITIAL_RATING)
        r12 == GetOr(ratings, team1[2], INITIAL_RATING)
        r21 == GetOr(ratings, team2[1], INITIAL_RATING)
        r22 == GetOr(ratings, team2[2], INITIAL_RATING)
        team2AvgRating == calculateTeamRating(r21, r22)
        team1Won == match.winner = 1
        c11 == calculateRatingChange(r11, team2AvgRating, team1Won,
                                     GetOr(games, team1[1], 0))
        c12 == calculateRatingChange(r12, team2AvgRating, team1Won,
                                     GetOr(games, team1[2], 0))
        team1AvgRating == calculateTeamRating(r11 + c11, r12 + c12)
    IN  [p \in Range(Participants(match)) |->
            IF p = team2[2] THEN
                calculateRatingChange(r22, team1AvgRating, ~team1Won,
                                      GetOr(games, team2[2], 0))
            ELSE IF p = team2[1] THEN
                calculateRatingChange(r21, team1AvgRating, ~team1Won,
                                      GetOr(games, team2[1], 0))
            ELSE IF p = team1[2] THEN c12
            ELSE c11]

processMatch(match, ratings, games) ==
    LET team1 == match.team1
        team2 == match.team2
        team1Player1Rating == GetOr(ratings, team1[1], INITIAL_RATING)
        team1Player2Rating == GetOr(ratings, team1[2], INITIAL_RATING)
        team2Player1Rating == GetOr(ratings, team2[1], INITIAL_RATING)
        team2Player2Rating == GetOr(ratings, team2[2], INITIAL_RATING)
        team1AvgRating == calculateTeamRating(team1Player1Rating, team1Player2Rating)
        team2AvgRating == calculateTeamRating(team2Player1Rating, team2Player2Rating)
        team1Won == match.winner = 1
    IN  [p \in Range(Participants(match)) |->
            \* a later assignment to the same key overwrites an earlier one
            IF p = team2[2] THEN
                calculateRatingChange(team2Player2Rating, team1AvgRating,
                                      ~team1Won, GetOr(games, team2[2], 0))
            ELSE IF p = team2[1] THEN
                calculateRatingChange(team2Player1Rating, team1AvgRating,
                                      ~team1Won, GetOr(games, team2[1], 0))
            ELSE IF p = team1[2] THEN
                calculateRatingChange(team1Player2Rating, team2AvgRating,
                                      team1Won, GetOr(games, team1[2], 0))
            ELSE
                calculateRatingChange(team1Player1Rating, team2AvgRating,
                                      team1Won, GetOr(games, team1[1], 0))]

(***************************************************************************)
(* Array helpers.                                                          *)
(***************************************************************************)
\* The elements of s that are not in the set seen, each once, in order.
RECURSIVE NewKeys(_, _)
NewKeys(s, seen) ==
    IF s = <<>> THEN <<>>
    ELSE IF Head(s) \in seen THEN NewKeys(Tail(s), seen)
    ELSE <<Head(s)>> \o NewKeys(Tail(s), seen \cup {Head(s)})

\* Variant of InsertByRating that puts x in front of its equals.
RECURSIVE InsertByRatingUnstable(_, _)
InsertByRatingUnstable(sorted, x) ==
    IF sorted = <<>> THEN <<x>>
    ELSE IF x.currentRating - Head(sorted).currentRating >= 0
         THEN <<x>> \o sorted
         ELSE <<Head(sorted)>> \o InsertByRatingUnstable(Tail(sorted), x)

\* Array.prototype.sort((a, b) => b.currentRating - a.currentRating): the
\* sort is stable, so x goes behind every element that does not sort after it.
RECURSIVE InsertByRating(_, _)
InsertByRating(sorted, x) ==
    IF sorted = <<>> THEN <<x>>
    ELSE IF x.currentRating - Head(sorted).currentRating > 0
         THEN <<x>> \o sorted
         ELSE <<Head(sorted)>> \o InsertByRating(Tail(sorted), x)

RECURSIVE SortByRating(_)
SortByRating(arr) ==
    IF arr = <<>> THEN <<>>
    ELSE InsertByRating(SortByRating(SubSeq(arr, 1, Len(arr) - 1)), arr[Len(arr)])

(***************************************************************************)
(* processAllMatches, step by step.                                        *)
(***************************************************************************)
\* The synthetic first snapshot of a player first seen in match.
InitialSnapshot(match) ==
    [date |-> match.date, rating |-> INITIAL_RATING, matchId |-> NULL, change |-> 0]

\* Variant of HistoryEntry that records the rating before the change.
HistoryEntryOldRating(match, newRating, change) ==
    [date |-> match.date, rating |-> newRating - change, matchId |-> match.id,
     change |-> change]

\* The snapshot pushed after match changed a player's rating.
HistoryEntry(match, newRating, change) ==
    [date |-> match.date, rating |-> newRating, matchId |-> match.id,
     change |-> change]

\* Variant of ProcessedMatch that keeps the changes of team 1 only.
ProcessedMatchTeam1Only(match, changes) ==
    [id |-> match.id, date |-> match.date, team1 |-> match.team1,
     team2 |-> match.team2, score |-> match.score, winner |-> match.winner,
     ratingChanges |-> [p \in Range(match.team1) |-> changes[p]]]

\* { ...match, ratingChanges }
ProcessedMatch(match, changes) ==
    ("ratingChanges" :> changes) @@ match

\* The output record of one player.
PlayerRecord(playerId, rating, gamesPlayed, history) ==
    [id |-> playerId,
     name |-> playerId,
     currentRating |-> rating,
     gamesPlayed |-> gamesPlayed,
     isCalibrated |-> gamesPlayed >= CALIBRATION_GAMES,
     ratingHistory |-> history,
     lastChange |-> IF Len(history) > 1 THEN history[Len(history)].change ELSE 0]

\* Variant of CallProcessAllMatches whose Maps and arrays live at module
\* level and are never cleared.
CallProcessAllMatchesStale ==
    /\ pc = "idle"
    /\ events < MaxEvents
    /\ events' = events + 1
    /\ pc' = "elo_init"
    /\ i' = 1
    /\ UNCHANGED <<playerRatings, playerGames, playerHistory, playerOrder,
                   ratingChanges, processedMatches, players>>
    /\ UNCHANGED <<otherModules, matches, groupMatches, eloResults, stLocals,
                   standingsResults, currentGenderFilter>>

\* Variant of CallProcessAllMatches that reads the first match before the
\* loops and so throws on an empty list.
CallProcessAllMatchesThrows ==
    /\ pc = "idle"
    /\ events < MaxEvents
    /\ events' = events + 1
    /\ pc' = IF matches = <<>> THEN "error" ELSE "elo_init"
    /\ i' = 1
    /\ playerRatings' = EmptyMap
    /\ playerGames' = EmptyMap
    /\ playerHistory' = EmptyMap
    /\ playerOrder' = <<>>
    /\ ratingChanges' = EmptyMap
    /\ processedMatches' = <<>>
    /\ players' = <<>>
    /\ UNCHANGED <<otherModules, matches, groupMatches, eloResults, stLocals,
                   standingsResults, currentGenderFilter>>

\* The call starts: fresh Maps and arrays.
CallProcessAllMatches ==
    /\ pc = "idle"
    /\ events < MaxEvents
    /\ events' = events + 1
    /\ pc' = "elo_init"
    /\ i' = 1
    /\ playerRatings' = EmptyMap
    /\ playerGames' = EmptyMap
    /\ playerHistory' = EmptyMap
    /\ playerOrder' = <<>>
    /\ ratingChanges' = EmptyMap
    /\ processedMatches' = <<>>
    /\ players' = <<>>
    /\ UNCHANGED <<otherModules, matches, groupMatches, eloResults, stLocals,
                   standingsResults, currentGenderFilter>>

\* Variant of InitPlayers that looks at team 1 only.
InitPlayersTeam1Only ==
    /\ pc = "elo_init"
    /\ i <= Len(matches)
    /\ LET match == matches[i]
           new == NewKeys(match.team1, DOMAIN playerRatings)
       IN  /\ playerRatings' = playerRatings @@ [p \in Range(new) |-> INITIAL_RATING]
           /\ playerGames' = playerGames @@ [p \in Range(new) |-> 0]
           /\ playerHistory' = playerHistory @@
                  [p \in Range(new) |-> <<InitialSnapshot(match)>>]
           /\ playerOrder' = playerOrder \o new
    /\ i' = i + 1
    /\ UNCHANGED <<otherModules, matches, groupMatches, pc, events, ratingChanges,
                   processedMatches, players, eloResults, stLocals,
                   standingsResults, currentGenderFilter>>

\* First loop, one match: every participant not yet known is initialized.
InitPlayers ==
    /\ pc = "elo_init"
    /\ i <= Len(matches)
    /\ LET match == matches[i]
           new == NewKeys(Participants(match), DOMAIN playerRatings)
       IN  /\ playerRatings' = playerRatings @@ [p \in Range(new) |-> INITIAL_RATING]
           /\ playerGames' = playerGames @@ [p \in Range(new) |-> 0]
           /\ playerHistory' = playerHistory @@
                  [p \in Range(new) |-> <<InitialSnapshot(match)>>]
           /\ playerOrder' = playerOrder \o new
    /\ i' = i + 1
    /\ UNCHANGED <<otherModules, matches, groupMatches, pc, events, ratingChanges,
                   processedMatches, players, eloResults, stLocals,
                   standingsResults, currentGenderFilter>>

InitPlayersDone ==
    /\ pc = "elo_init"
    /\ i > Len(matches)
    /\ pc' = "elo_process"
    /\ i' = 1
    /\ UNCHANGED <<otherModules, matches, groupMatches, events, playerRatings, playerGames,
                   playerHistory, playerOrder, ratingChanges, processedMatches,
                   players, eloResults, stLocals, standingsResults,
                   currentGenderFilter>>

\* Second loop, one match: processMatch computes the four changes.
ProcessMatch ==
    /\ pc = "elo_process"
    /\ i <= Len(matches)
    /\ ratingChanges' = processMatch(matches[i], playerRatings, playerGames)
    /\ pc' = "elo_apply"
    /\ UNCHANGED <<otherModules, matches, groupMatches, events, i, playerRatings, playerGames,
                   playerHistory, playerOrder, processedMatches, players,
                   eloResults, stLocals, standingsResults, currentGenderFilter>>

\* Second loop, same match: the changes are applied and the match is stored.
ApplyChanges ==
    /\ pc = "elo_apply"
    /\ LET match == matches[i]
           ids == DOMAIN ratingChanges
           newRating(p) == playerRatings[p] + ratingChanges[p]
       IN  /\ playerRatings' =
                  [p \in DOMAIN playerRatings |->
                      IF p \in ids THEN newRating(p) ELSE playerRatings[p]]
           /\ playerGames' =
                  [p \in DOMAIN playerGames |->
                      IF p \in ids THEN GetOr(playerGames, p, 0) + 1
                      ELSE playerGames[p]]
           /\ playerHistory' =
                  [p \in DOMAIN playerHistory |->
                      IF p \in ids
                      THEN Append(playerHistory[p],
                                  HistoryEntry(match, newRating(p), ratingChanges[p]))
                      ELSE playerHistory[p]]
           /\ processedMatches' =
                  Append(processedMatches, ProcessedMatch(match, ratingChanges))
    /\ ratingChanges' = EmptyMap
    /\ i' = i + 1
    /\ pc' = "elo_process"
    /\ UNCHANGED <<otherModules, matches, groupMatches, events, playerOrder, players,
                   eloResults, stLocals, standingsResults, currentGenderFilter>>

ProcessDone ==
    /\ pc = "elo_process"
    /\ i > Len(matches)
    /\ pc' = "elo_build"
    /\ UNCHANGED <<otherModules, matches, groupMatches, events, eloLocals, eloResults,
                   stLocals, standingsResults, currentGenderFilter>>

\* playerRatings.forEach: one player record per key, in insertion order.
BuildPlayers ==
    /\ pc = "elo_build"
    /\ players' =
           [k \in 1..Len(playerOrder) |->
               LET playerId == playerOrder[k]
               IN  PlayerRecord(playerId, playerRatings[playerId],
                                playerGames[playerId], playerHistory[playerId])]
    /\ pc' = "elo_sort"
    /\ UNCHANGED <<otherModules, matches, groupMatches, events, i, playerRatings, playerGames,
                   playerHistory, playerOrder, ratingChanges, processedMatches,
                   eloResults, stLocals, standingsResults, currentGenderFilter>>

SortPlayers ==
    /\ pc = "elo_sort"
    /\ players' = SortByRating(players)
    /\ pc' = "elo_return"
    /\ UNCHANGED <<otherModules, matches, groupMatches, events, i, playerRatings, playerGames,
                   playerHistory, playerOrder, ratingChanges, processedMatches,
                   eloResults, stLocals, standingsResults, currentGenderFilter>>

\* return { players, matches: processedMatches }
ReturnProcessAllMatches ==
    /\ pc = "elo_return"
    /\ eloResults' = Append(eloResults,
                            [players |-> players, matches |-> processedMatches])
    /\ pc' = "idle"
    /\ UNCHANGED <<otherModules, matches, groupMatches, events, eloLocals, stLocals,
                   standingsResults, currentGenderFilter>>

(***************************************************************************)
(* The tournament page: gender of a name, Italian points, standings.       *)
(***************************************************************************)
FEMALE_NAMES ==
    { << <<"M","a","r","i","ya">> >>,
      << <<"A","n","a","s","t","a","s","i","ya">> >>,
      << <<"Yu","l","i","ya">> >>,
      << <<"S","v","e","t","l","a","n","a">> >>,
      << <<"O","l","soft","g","a">> >>,
      << <<"A","n","n","a">> >>,
      << <<"N","a","t","a","l","soft","ya">> >>,
      << <<"E","k","a","t","e","r","i","n","a">> >>,
      << <<"E","l","e","n","a">> >>,
      << <<"I","r","i","n","a">> >>,
      << <<"T","a","t","soft","ya","n","a">> >>,
      << <<"D","a","r","soft","ya">> >>,
      << <<"K","s","e","n","i","ya">> >>,
      << <<"E","v","g","e","n","i","ya">> >>,
      << <<"I","n","n","a">> >>,
      << <<"V","a","s","i","l","i","s","a">> >>,
      << <<"Zh","a","n","n","a">> >>,
      << <<"N","i","n","a">> >>,
      << <<"P","r","e","o","b","r","a","zh","e","n","s","k","a","ya">>, <<"E","k",".">> >>,
      << <<"N","e","i","z","v","e","s","t","n","a","ya">>, <<"K","s","e","n","i","ya">> >> }
maleExceptions ==
    { <<"N","i","k","i","t","a">>,
      <<"I","l","soft","ya">>,
      <<"K","i","r","i","l","l">> }
EndsWith(word, suffix) ==
    /\ Len(word) >= Len(suffix)
    /\ SubSeq(word, Len(word) - Len(suffix) + 1, Len(word)) = suffix

\* fullName is the sequence of words of the name (its split at ' ').
getGender(fullName) ==
    LET parts == fullName
        firstName == IF Len(parts) > 1 THEN parts[2] ELSE parts[1]
    IN  IF fullName \in FEMALE_NAMES THEN "female"
        ELSE IF <<firstName>> \in FEMALE_NAMES THEN "female"
        ELSE IF /\ \/ EndsWith(firstName, <<"a">>)
                   \/ EndsWith(firstName, <<"ya">>)
                   \/ EndsWith(firstName, <<"soft","ya">>)
                /\ firstName \notin maleExceptions
             THEN "female"
        ELSE "male"

Abs(x) == IF x < 0 THEN 0 - x ELSE x

\* Variant of getItalianPoints that calls every margin up to 2 balanced.
getItalianPointsUpTo2(myScore, opponentScore) ==
    LET diff == Abs(myScore - opponentScore)
        isBalanced == diff <= 2
    IN  IF myScore > opponentScore
        THEN (IF isBalanced THEN 2 ELSE 3)
        ELSE (IF isBalanced THEN 1 ELSE 0)

\* Variant of getItalianPoints: the loser of any match receives 1 point.
getItalianPointsLoserOne(myScore, opponentScore) ==
    LET diff == Abs(myScore - opponentScore)
        isBalanced == diff = 2
    IN  IF myScore > opponentScore
        THEN (IF isBalanced THEN 2 ELSE 3)
        ELSE 1

getItalianPoints(myScore, opponentScore) ==
    LET diff == Abs(myScore - opponentScore)
        isBalanced == diff = 2
    IN  IF myScore > opponentScore
        THEN (IF isBalanced THEN 2 ELSE 3)
        ELSE (IF isBalanced THEN 1 ELSE 0)

NewRow(playerName) ==
    [name |-> playerName, gender |-> getGender(FullName[playerName]),
     games |-> 0, wins |-> 0, losses |-> 0, italianPoints |-> 0,
     ballsFor |-> 0, ballsAgainst |-> 0, matchDetails |-> <<>>]

\* Variant of AccumulateTeam that adds the own score to both ball counts.
RECURSIVE AccumulateTeamOwnScoreTwice(_, _, _, _, _, _)
AccumulateTeamOwnScoreTwice(rows, team, matchId, myScore, oppScore, won) ==
    IF team = <<>> THEN rows
    ELSE LET p == rows[Head(team)]
             pts == getItalianPoints(myScore, oppScore)
             q == [p EXCEPT
                     !.games = @ + 1,
                     !.wins = IF won THEN @ + 1 ELSE @,
                     !.losses = IF won THEN @ ELSE @ + 1,
                     !.italianPoints = @ + pts,
                     !.ballsFor = @ + myScore,
                     !.ballsAgainst = @ + myScore,
                     !.matchDetails = Append(@,
                         [id |-> matchId, myScore |-> myScore,
                          oppScore |-> oppScore, won |-> won,
                          diff |-> Abs(myScore - oppScore), points |-> pts])]
         IN  AccumulateTeamOwnScoreTwice([rows EXCEPT ![Head(team)] = q],
                                         Tail(team), matchId, myScore,
                                         oppScore, won)

\* Variant of AccumulateTeam that keeps the detail of the last match only.
RECURSIVE AccumulateTeamLastDetail(_, _, _, _, _, _)
AccumulateTeamLastDetail(rows, team, matchId, myScore, oppScore, won) ==
    IF team = <<>> THEN rows
    ELSE LET p == rows[Head(team)]
             pts == getItalianPoints(myScore, oppScore)
             q == [p EXCEPT
                     !.games = @ + 1,
                     !.wins = IF won THEN @ + 1 ELSE @,
                     !.losses = IF won THEN @ ELSE @ + 1,
                     !.italianPoints = @ + pts,
                     !.ballsFor = @ + myScore,
                     !.ballsAgainst = @ + oppScore,
                     !.matchDetails =
                        <<[id |-> matchId, myScore |-> myScore,
                           oppScore |-> oppScore, won |-> won,
                           diff |-> Abs(myScore - oppScore), points |-> pts]>>]
         IN  AccumulateTeamLastDetail([rows EXCEPT ![Head(team)] = q],
                                      Tail(team), matchId, myScore,
                                      oppScore, won)

\* team.forEach(playerName => { const p = players.get(playerName); ... })
RECURSIVE AccumulateTeam(_, _, _, _, _, _)
AccumulateTeam(rows, team, matchId, myScore, oppScore, won) ==
    IF team = <<>> THEN rows
    ELSE LET p == rows[Head(team)]
             pts == getItalianPoints(myScore, oppScore)
             q == [p EXCEPT
                     !.games = @ + 1,
                     !.wins = IF won THEN @ + 1 ELSE @,
                     !.losses = IF won THEN @ ELSE @ + 1,
                     !.italianPoints = @ + pts,
                     !.ballsFor = @ + myScore,
                     !.ballsAgainst = @ + oppScore,
                     !.matchDetails = Append(@,
                         [id |-> matchId, myScore |-> myScore,
                          oppScore |-> oppScore, won |-> won,
                          diff |-> Abs(myScore - oppScore), points |-> pts])]
         IN  AccumulateTeam([rows EXCEPT ![Head(team)] = q], Tail(team),
                            matchId, myScore, oppScore, won)

\* Variant of StandsBefore that looks at the difference first.
StandsBeforeDiffFirst(x, y) ==
    IF y.ballsDiff # x.ballsDiff
    THEN x.ballsDiff - y.ballsDiff > 0
    ELSE x.italianPoints - y.italianPoints > 0

\* The comparator of the standings sort, as "x sorts strictly before y".
StandsBefore(x, y) ==
    IF y.italianPoints # x.italianPoints
    THEN x.italianPoints - y.italianPoints > 0
    ELSE x.ballsDiff - y.ballsDiff > 0

RECURSIVE InsertStanding(_, _)
InsertStanding(sorted, x) ==
    IF sorted = <<>> THEN <<x>>
    ELSE IF StandsBefore(x, Head(sorted)) THEN <<x>> \o sorted
    ELSE <<Head(sorted)>> \o InsertStanding(Tail(sorted), x)

RECURSIVE SortStandings(_)
SortStandings(arr) ==
    IF arr = <<>> THEN <<>>
    ELSE InsertStanding(SortStandings(SubSeq(arr, 1, Len(arr) - 1)), arr[Len(arr)])

\* Variant of FinishStandings that leaves the rows in Map order.
FinishStandingsUnsorted(rows, order, filter) ==
    LET values == [k \in 1..Len(order) |-> rows[order[k]]]
        kept == SelectSeq(values, LAMBDA p : filter = "all" \/ p.gender = filter)
    IN  [k \in 1..Len(kept) |->
            [name |-> kept[k].name, gender |-> kept[k].gender,
             games |-> kept[k].games, wins |-> kept[k].wins,
             losses |-> kept[k].losses,
             italianPoints |-> kept[k].italianPoints,
             ballsFor |-> kept[k].ballsFor,
             ballsAgainst |-> kept[k].ballsAgainst,
             matchDetails |-> kept[k].matchDetails,
             ballsDiff |-> kept[k].ballsFor - kept[k].ballsAgainst]]

\* Variant of FinishStandings: under a gender filter the kept rows are
\* sorted from the reverse of the Map order.
FinishStandingsFilterReverses(rows, order, filter) ==
    LET values == [k \in 1..Len(order) |-> rows[order[k]]]
        chosen == SelectSeq(values, LAMBDA p : filter = "all" \/ p.gender = filter)
        kept == IF filter = "all" THEN chosen
                ELSE [k \in 1..Len(chosen) |-> chosen[Len(chosen) + 1 - k]]
        withDiff == [k \in 1..Len(kept) |->
                        [name |-> kept[k].name, gender |-> kept[k].gender,
                         games |-> kept[k].games, wins |-> kept[k].wins,
                         losses |-> kept[k].losses,
                         italianPoints |-> kept[k].italianPoints,
                         ballsFor |-> kept[k].ballsFor,
                         ballsAgainst |-> kept[k].ballsAgainst,
                         matchDetails |-> kept[k].matchDetails,
                         ballsDiff |-> kept[k].ballsFor - kept[k].ballsAgainst]]
    IN  SortStandings(withDiff)

\* Array.from(players.values()).filter(...).map(...).sort(...)
FinishStandings(rows, order, filter) ==
    LET values == [k \in 1..Len(order) |-> rows[order[k]]]
        kept == SelectSeq(values, LAMBDA p : filter = "all" \/ p.gender = filter)
        withDiff == [k \in 1..Len(kept) |->
                        [name |-> kept[k].name, gender |-> kept[k].gender,
                         games |-> kept[k].games, wins |-> kept[k].wins,
                         losses |-> kept[k].losses,
                         italianPoints |-> kept[k].italianPoints,
                         ballsFor |-> kept[k].ballsFor,
                         ballsAgainst |-> kept[k].ballsAgainst,
                         matchDetails |-> kept[k].matchDetails,
                         ballsDiff |-> kept[k].ballsFor - kept[k].ballsAgainst]]
    IN  SortStandings(withDiff)

StartStandings ==
    /\ pc' = "st_match"
    /\ stI' = 1
    /\ stPlayers' = EmptyMap
    /\ stOrder' = <<>>

\* initTournamentUI -> renderTournamentContent -> renderGroupSection:
\* the group's standings are computed under the current filter.
RenderGroupSection ==
    /\ pc = "idle"
    /\ events < MaxEvents
    /\ events' = events + 1
    /\ StartStandings
    /\ UNCHANGED <<otherModules, matches, groupMatches, eloLocals, eloResults,
                   standingsResults, currentGenderFilter>>

\* Click on a gender button: the filter is set and the page is rendered
\* again, which computes the group's standings.
ClickGender ==
    /\ pc = "idle"
    /\ events < MaxEvents
    /\ events' = events + 1
    /\ \E g \in {"all", "male", "female"} : currentGenderFilter' = g
    /\ StartStandings
    /\ UNCHANGED <<otherModules, matches, groupMatches, eloLocals, eloResults,
                   standingsResults>>

\* Loop body, first half: a draw is skipped; otherwise every participant
\* without a row gets a fresh one.
StandingsMatch ==
    /\ pc = "st_match"
    /\ stI <= Len(groupMatches)
    /\ LET match == groupMatches[stI]
           new == NewKeys(Participants(match), DOMAIN stPlayers)
       IN  IF match.score[1] = match.score[2]
           THEN /\ stI' = stI + 1
                /\ UNCHANGED <<pc, stPlayers, stOrder>>
           ELSE /\ stPlayers' = stPlayers @@ [p \in Range(new) |-> NewRow(p)]
                /\ stOrder' = stOrder \o new
                /\ pc' = "st_accumulate"
                /\ UNCHANGED stI
    /\ UNCHANGED <<otherModules, matches, groupMatches, events, eloLocals, eloResults,
                   standingsResults, currentGenderFilter>>

\* Loop body, second half: team 1, then team 2.
StandingsAccumulate ==
    /\ pc = "st_accumulate"
    /\ LET match == groupMatches[stI]
           team1Won == match.score[1] > match.score[2]
           after1 == AccumulateTeam(stPlayers, match.team1, match.id,
                                    match.score[1], match.score[2], team1Won)
       IN  stPlayers' = AccumulateTeam(after1, match.team2, match.id,
                                       match.score[2], match.score[1], ~team1Won)
    /\ stI' = stI + 1
    /\ pc' = "st_match"
    /\ UNCHANGED <<otherModules, matches, groupMatches, events, eloLocals, eloResults,
                   stOrder, standingsResults, currentGenderFilter>>

ReturnStandings ==
    /\ pc = "st_match"
    /\ stI > Len(groupMatches)
    /\ standingsResults' =
           Append(standingsResults,
                  FinishStandings(stPlayers, stOrder, currentGenderFilter))
    /\ pc' = "idle"
    /\ UNCHANGED <<otherModules, matches, groupMatches, events, eloLocals, eloResults,
                   stLocals, currentGenderFilter>>

(***************************************************************************)
(* The specification.                                                      *)
(***************************************************************************)
\* Nothing loaded by the data manager, no legacy table rendered and no
\* helper function under call.
\* No import under way and an empty database; the rating page not yet
\* initialised.
Tables == {"seasons", "tournaments", "leagues", "groups", "players", "matches"}

\* schema.sql on a new file: six empty tables; sqlite_sequence holds the
\* largest rowid each AUTOINCREMENT table has handed out.
EmptyDb ==
    [seasons |-> <<>>, tournaments |-> <<>>, leagues |-> <<>>,
     groups |-> <<>>, players |-> <<>>, matches |-> <<>>,
     sqlite_sequence |-> [t \in Tables |-> 0]]

\* importTournament before it runs: its number among the events, whether
\* its transaction has read (and so holds a snapshot) or written (and so
\* holds the write lock), its ids and its loop indices.
ImpIdle ==
    [run |-> 0, snapshot |-> FALSE, writing |-> FALSE,
     season |-> 0, tournamentId |-> 0, leagueId |-> 0, groupId |-> 0,
     i |-> 0, g |-> 0, m |-> 0]

\* The server module between two requests.
SrvIdle ==
    [op |-> "idle", run |-> 0, name |-> NULL, seasonId |-> 0,
     season |-> <<>>, tournaments |-> <<>>]

ServerIdle ==
    /\ db = EmptyDb
    /\ dbBefore = EmptyDb
    /\ playerCache = EmptyMap
    /\ importArgs = <<>>
    /\ imp = ImpIdle
    /\ importOutcomes = EmptyMap
    /\ playerCalls = {}
    /\ seasonRating = <<>>
    /\ srv = SrvIdle

NoControls ==
    [prevDisabled |-> TRUE, pages |-> <<>>, nextDisabled |-> TRUE,
     shown |-> FALSE]

\* The value of the league select's first option.
AllLeagues == <<"a", "l", "l">>

RatingPageIdle ==
    /\ currentData = <<>>
    /\ filteredPlayers = <<>>
    /\ currentPage = 1
    /\ searchValue = <<>>
    /\ leagueFilterValue = AllLeagues
    /\ paginationControls = NoControls

OtherModulesIdle ==
    /\ ServerIdle
    /\ RatingPageIdle
    /\ rawData = NULL
    /\ rawTournamentDataStore = <<>>
    /\ leagueIdx = 1
    /\ groupIdx = 1
    /\ matchIdx = 1
    /\ winLossResults = <<>>
    /\ fnArgs = NULL
    /\ fnResults = EmptyMap

Init ==
    /\ OtherModulesIdle
    /\ \/ \E us \in ShortInputs :
             /\ groupMatches = RawGroup(us)
             /\ matches = EloInput(RawGroup(us))
       \/ \E us \in LongInputs :
             /\ groupMatches = <<>>
             /\ matches = EloInput(RawGroup(us))
    /\ pc = "idle"
    /\ events = 0
    /\ i = 1
    /\ playerRatings = EmptyMap
    /\ playerGames = EmptyMap
    /\ playerHistory = EmptyMap
    /\ playerOrder = <<>>
    /\ ratingChanges = EmptyMap
    /\ processedMatches = <<>>
    /\ players = <<>>
    /\ eloResults = <<>>
    /\ stI = 1
    /\ stPlayers = EmptyMap
    /\ stOrder = <<>>
    /\ standingsResults = <<>>
    /\ currentGenderFilter = "all"

Next ==
    \/ CallProcessAllMatches
    \/ InitPlayers
    \/ InitPlayersDone
    \/ ProcessMatch
    \/ ApplyChanges
    \/ ProcessDone
    \/ BuildPlayers
    \/ SortPlayers
    \/ ReturnProcessAllMatches
    \/ RenderGroupSection
    \/ ClickGender
    \/ StandingsMatch
    \/ StandingsAccumulate
    \/ ReturnStandings

Spec == Init /\ [][Next]_vars

(***************************************************************************)
(* Vocabulary of the properties.                                           *)
(***************************************************************************)
InMatch(p, m) == p \in Range(Participants(m))
Won(p, m) == (p \in Range(m.team1)) = (m.winner = 1)
OpponentTeam(p, m) == IF p \in Range(m.team1) THEN m.team2 ELSE m.team1

\* Every array of annotated matches the engine has produced so far: the
\* returned ones and the one under construction.
MatchArrays == {processedMatches} \cup { eloResults[r].matches : r \in DOMAIN eloResults }

\* Sum of the changes recorded for p in the first k annotated matches.
RECURSIVE SumChanges(_, _, _)
SumChanges(ms, p, k) ==
    IF k = 0 THEN 0
    ELSE SumChanges(ms, p, k - 1) +
         (IF InMatch(p, ms[k]) THEN ms[k].ratingChanges[p] ELSE 0)

\* Rating and number of matches of p before the k-th match.
RatingBefore(ms, p, k) == INITIAL_RATING + SumChanges(ms, p, k - 1)
GamesBefore(ms, p, k) == Cardinality({ j \in 1..(k - 1) : InMatch(p, ms[j]) })

\* 2 * (opposing team's average before match k - p's rating before match k)
GapBefore(ms, p, k) ==
    LET opp == OpponentTeam(p, ms[k])
    IN  RatingBefore(ms, opp[1], k) + RatingBefore(ms, opp[2], k)
            - 2 * RatingBefore(ms, p, k)

(***************************************************************************)
(* C1.  Every rating change of a match is computed from the ratings and    *)
(* games counts the four participants had before that match (the sum of    *)
(* their earlier changes on top of 1500), never from a rating already      *)
(* updated for the same match; while the changes of a match wait to be     *)
(* applied, each Map rating is still the rating of the player's last       *)
(* history snapshot.                                                       *)
(***************************************************************************)
C1_FrozenPreMatchState ==
    /\ \A ms \in MatchArrays : \A k \in DOMAIN ms :
          \A p \in Range(Participants(ms[k])) :
             LET opp == OpponentTeam(p, ms[k])
             IN  ms[k].ratingChanges[p] =
                     calculateRatingChange(
                         RatingBefore(ms, p, k),
                         RatingBefore(ms, opp[1], k) + RatingBefore(ms, opp[2], k),
                         Won(p, ms[k]),
                         GamesBefore(ms, p, k))
    /\ pc \in {"elo_process", "elo_apply"} =>
          \A p \in DOMAIN playerRatings :
             /\ playerRatings[p] = playerHistory[p][Len(playerHistory[p])].rating
             /\ playerRatings[p] = RatingBefore(processedMatches, p, i)
             /\ playerGames[p] = GamesBefore(processedMatches, p, i)

\* A returned run in which a later match has two team mates with different
\* ratings before it, and the match changed them differently.
C1_Witness ==
    \E r \in DOMAIN eloResults :
       LET ms == eloResults[r].matches
       IN  \E k \in DOMAIN ms :
              /\ k >= 2
              /\ RatingBefore(ms, ms[k].team1[1], k) # RatingBefore(ms, ms[k].team1[2], k)
              /\ ms[k].ratingChanges[ms[k].team1[1]] # ms[k].ratingChanges[ms[k].team1[2]]

(***************************************************************************)
(* C2.  The K-factor of a participant is chosen from the number of matches *)
(* of the input list that this player played before the match: the 1st to  *)
(* the 15th match of a player are rated with K = 40, every later one with  *)
(* K = 32, for each of the four participants on their own.                 *)
(***************************************************************************)
PlayedBefore(p, k) == Cardinality({ j \in 1..(k - 1) : InMatch(p, matches[j]) })
ClaimedK(p, k) == IF PlayedBefore(p, k) + 1 <= 15 THEN 40 ELSE 32

C2_KFactorByPriorGames ==
    \A ms \in MatchArrays : \A k \in DOMAIN ms :
       \A p \in Range(Participants(ms[k])) :
          ms[k].ratingChanges[p] =
              IF Won(p, ms[k])
              THEN RoundedGain(ClaimedK(p, k), GapBefore(ms, p, k))
              ELSE 0 - RoundedGain(ClaimedK(p, k), 0 - GapBefore(ms, p, k))

\* A returned match in which a winner in their 16th match (K = 32) plays
\* next to or against a player still below 15 matches, and the two
\* K-factors would have given the winner different changes.
C2_Witness ==
    \E r \in DOMAIN eloResults :
       LET ms == eloResults[r].matches
       IN  \E k \in DOMAIN ms : \E p, q \in Range(Participants(ms[k])) :
              /\ PlayedBefore(p, k) = 15
              /\ PlayedBefore(q, k) < 15
              /\ Won(p, ms[k])
              /\ RoundedGain(40, GapBefore(ms, p, k)) # RoundedGain(32, GapBefore(ms, p, k))
              /\ ms[k].ratingChanges[p] = RoundedGain(32, GapBefore(ms, p, k))

(***************************************************************************)
(* C3.  getKFactor is 40 for every games-played count from 0 to 14 and 32  *)
(* for every count of 15 or more, on every count the engine passes to it   *)
(* and on every count up to twice the calibration length.                  *)
(***************************************************************************)
C3_KFactorBoundary ==
    /\ \A p \in DOMAIN playerGames :
          getKFactor(playerGames[p]) = IF playerGames[p] <= 14 THEN 40 ELSE 32
    /\ \A g \in 0..(2 * CALIBRATION_GAMES) :
          getKFactor(g) = IF g <= 14 THEN 40 ELSE 32
    /\ getKFactor(14) = 40
    /\ getKFactor(15) = 32

\* processMatch is about to read the counts of a player with 14 games and
\* of a player with 15 games.
C3_Witness ==
    /\ pc = "elo_process"
    /\ i <= Len(matches)
    /\ \E p, q \in Range(Participants(matches[i])) :
          /\ playerGames[p] = 14
          /\ playerGames[q] = 15

\* The matches of the input list that p took part in, in input order.
MatchesOf(p) == SelectSeq(matches, LAMBDA m : InMatch(p, m))

\* The identifiers that appear in a team of an input match.
InputPlayers == UNION { Range(Participants(matches[k])) : k \in DOMAIN matches }

\* Position of the first appearance of p in team1[0], team1[1], team2[0],
\* team2[1] of the matches in input order.
SlotPlayer(n) == Participants(matches[((n - 1) \div 4) + 1])[((n - 1) % 4) + 1]
FirstSeen(p) ==
    CHOOSE n \in 1..(4 * Len(matches)) :
       /\ SlotPlayer(n) = p
       /\ \A n2 \in 1..(n - 1) : SlotPlayer(n2) # p

(***************************************************************************)
(* C4.  In every returned result each player's ratingHistory is the        *)
(* initial snapshot (rating 1500, matchId null, change 0) followed by one  *)
(* entry per input match the player took part in, in input order, with     *)
(* that match's id and date; its length is gamesPlayed + 1, each entry's   *)
(* rating is the previous entry's rating plus its change, and              *)
(* currentRating is the last entry's rating.                               *)
(***************************************************************************)
C4_HistoryShape ==
    \A r \in DOMAIN eloResults : \A n \in DOMAIN eloResults[r].players :
       LET pl == eloResults[r].players[n]
           h == pl.ratingHistory
           mine == MatchesOf(pl.id)
       IN  /\ Len(h) = Len(mine) + 1
           /\ Len(h) = pl.gamesPlayed + 1
           /\ h[1].rating = 1500 /\ h[1].matchId = NULL /\ h[1].change = 0
           /\ \A j \in 1..Len(mine) :
                 /\ h[j + 1].matchId = mine[j].id
                 /\ h[j + 1].date = mine[j].date
                 /\ h[j + 1].rating = h[j].rating + h[j + 1].change
           /\ pl.currentRating = h[Len(h)].rating

\* A result with a player who played at least two matches, one of them
\* with a non-zero change, next to a player who missed a match.
C4_Witness ==
    \E r \in DOMAIN eloResults : \E a, b \in DOMAIN eloResults[r].players :
       LET pa == eloResults[r].players[a]
           pb == eloResults[r].players[b]
       IN  /\ pa.gamesPlayed >= 2
           /\ pa.ratingHistory[3].change # 0
           /\ pb.gamesPlayed < Len(matches)
           /\ pb.gamesPlayed >= 1

(***************************************************************************)
(* C5.  When the four participants of a match have the same rating and the *)
(* same K-factor before it, the winners get +K/2 and the losers -K/2; the  *)
(* first match of a list always is such a match with K = 40: after it the  *)
(* winners stand at 1520 and the losers at 1480, and a list of one match   *)
(* returns these ratings with gamesPlayed = 1 for all four.                *)
(***************************************************************************)
C5_EqualRatingsSymmetric ==
    /\ \A ms \in MatchArrays : \A k \in DOMAIN ms :
          LET ps == Range(Participants(ms[k]))
              kOf(p) == IF GamesBefore(ms, p, k) < 15 THEN 40 ELSE 32
          IN  (\A p, q \in ps : /\ RatingBefore(ms, p, k) = RatingBefore(ms, q, k)
                                /\ kOf(p) = kOf(q))
              => \A p \in ps :
                    ms[k].ratingChanges[p] =
                        IF Won(p, ms[k]) THEN kOf(p) \div 2 ELSE 0 - (kOf(p) \div 2)
    /\ \A r \in DOMAIN eloResults : \A n \in DOMAIN eloResults[r].players :
          LET pl == eloResults[r].players[n]
          IN  InMatch(pl.id, matches[1]) =>
                 /\ pl.ratingHistory[2].rating =
                        IF Won(pl.id, matches[1]) THEN 1520 ELSE 1480
                 /\ Len(matches) = 1 =>
                       /\ pl.gamesPlayed = 1
                       /\ pl.currentRating =
                              IF Won(pl.id, matches[1]) THEN 1520 ELSE 1480

\* A one-match list has been rated: two players at 1520 and two at 1480.
C5_Witness ==
    /\ Len(matches) = 1
    /\ \E r \in DOMAIN eloResults :
          LET ps == eloResults[r].players
          IN  /\ Len(ps) = 4
              /\ Cardinality({ n \in DOMAIN ps : ps[n].currentRating = 1520 }) = 2
              /\ Cardinality({ n \in DOMAIN ps : ps[n].currentRating = 1480 }) = 2

(***************************************************************************)
(* C6.  The returned players list is sorted by currentRating, highest      *)
(* first, and players with the same currentRating stand in the order of    *)
(* their first appearance in the match list.                               *)
(***************************************************************************)
C6_SortedStable ==
    \A r \in DOMAIN eloResults :
       LET ps == eloResults[r].players
       IN  \A a, b \in DOMAIN ps :
              a < b =>
                 /\ ps[a].currentRating >= ps[b].currentRating
                 /\ ps[a].currentRating = ps[b].currentRating
                       => FirstSeen(ps[a].id) < FirstSeen(ps[b].id)

\* A result with two players of equal rating, and with a player who was
\* seen later than another but is ranked higher.
C6_Witness ==
    \E r \in DOMAIN eloResults :
       LET ps == eloResults[r].players
       IN  /\ \E a, b \in DOMAIN ps :
                 a < b /\ ps[a].currentRating = ps[b].currentRating
           /\ \E a, b \in DOMAIN ps :
                 a < b /\ FirstSeen(ps[a].id) > FirstSeen(ps[b].id)

(***************************************************************************)
(* C7.  The result holds every input match, in input order, with its       *)
(* fields as given, plus a ratingChanges map whose keys are the four       *)
(* participants and whose values are the changes that were applied to      *)
(* their ratings for this match.                                           *)
(***************************************************************************)
C7_AnnotatedMatches ==
    \A r \in DOMAIN eloResults :
       LET ms == eloResults[r].matches
           ps == eloResults[r].players
       IN  /\ Len(ms) = Len(matches)
           /\ \A k \in DOMAIN ms :
                 /\ [f \in DOMAIN matches[k] |-> ms[k][f]] = matches[k]
                 /\ DOMAIN ms[k] = DOMAIN matches[k] \cup {"ratingChanges"}
                 /\ DOMAIN ms[k].ratingChanges = Range(Participants(matches[k]))
                 /\ \A p \in Range(Participants(matches[k])) :
                       \E n \in DOMAIN ps :
                          LET h == ps[n].ratingHistory
                          IN  /\ ps[n].id = p
                              /\ \E j \in 2..Len(h) :
                                    /\ h[j].matchId = matches[k].id
                                    /\ h[j].change = ms[k].ratingChanges[p]
                                    /\ h[j].rating - h[j - 1].rating
                                          = ms[k].ratingChanges[p]

\* A result of at least two matches in which some change is not zero and
\* the two teams of a match got changes of different size.
C7_Witness ==
    \E r \in DOMAIN eloResults :
       LET ms == eloResults[r].matches
       IN  /\ Len(ms) >= 2
           /\ \E k \in DOMAIN ms :
                 ms[k].ratingChanges[ms[k].team1[1]]
                     # 0 - ms[k].ratingChanges[ms[k].team2[1]]

(***************************************************************************)
(* C8.  The players of a result are exactly the identifiers that appear in *)
(* a team of an input match, each once; no lookup fails: while the matches *)
(* are rated every participant is in the Maps, and a player without an     *)
(* earlier match enters with rating 1500 and 0 games.  In the standings    *)
(* engine every participant of a counted match has a row when the match is *)
(* accumulated, and a row created for this match is zeroed.                *)
(***************************************************************************)
C8_PlayersCreatedOnFirstReference ==
    /\ \A r \in DOMAIN eloResults :
          LET ps == eloResults[r].players
          IN  /\ { ps[n].id : n \in DOMAIN ps } = InputPlayers
              /\ Len(ps) = Cardinality(InputPlayers)
    /\ pc \in {"elo_process", "elo_apply"} =>
          /\ InputPlayers \subseteq DOMAIN playerRatings
          /\ InputPlayers \subseteq DOMAIN playerGames
          /\ InputPlayers \subseteq DOMAIN playerHistory
          /\ \A p \in InputPlayers :
                PlayedBefore(p, i) = 0 =>
                   /\ playerRatings[p] = 1500
                   /\ playerGames[p] = 0
    /\ pc = "st_accumulate" =>
          \A p \in Range(Participants(groupMatches[stI])) :
             /\ p \in DOMAIN stPlayers
             /\ (\A j \in 1..(stI - 1) :
                    InMatch(p, groupMatches[j]) => IsDraw(groupMatches[j]))
                => /\ stPlayers[p].games = 0
                   /\ stPlayers[p].wins = 0
                   /\ stPlayers[p].losses = 0
                   /\ stPlayers[p].italianPoints = 0
                   /\ stPlayers[p].ballsFor = 0
                   /\ stPlayers[p].ballsAgainst = 0
                   /\ stPlayers[p].matchDetails = <<>>
                   /\ stPlayers[p].name = p

\* After a rating run that returned five players, the standings engine is
\* about to accumulate a later match with a player it has not seen before.
C8_Witness ==
    /\ \E r \in DOMAIN eloResults : Len(eloResults[r].players) = 5
    /\ pc = "st_accumulate"
    /\ stI >= 2
    /\ \E p, q \in Range(Participants(groupMatches[stI])) :
          /\ stPlayers[p].games = 0
          /\ stPlayers[q].games > 0

(***************************************************************************)
(* C9.  With an empty match list neither engine fails: processAllMatches   *)
(* returns an empty players list and an empty matches list, and            *)
(* calculateStandings returns an empty list.                               *)
(***************************************************************************)
C9_EmptyInput ==
    /\ pc # "error"
    /\ matches = <<>> =>
          \A r \in DOMAIN eloResults :
             eloResults[r] = [players |-> <<>>, matches |-> <<>>]
    /\ groupMatches = <<>> =>
          \A r \in DOMAIN standingsResults : standingsResults[r] = <<>>

\* Both engines have returned for the empty list.
C9_Witness ==
    /\ groupMatches = <<>>
    /\ matches = <<>>
    /\ Len(eloResults) = 1
    /\ Len(standingsResults) = 1
    /\ pc = "idle"

(***************************************************************************)
(* C10.  Two processAllMatches calls on the same match list return the     *)
(* same players and matches, and every call starts from empty Maps and     *)
(* arrays.                                                                 *)
(***************************************************************************)
C10_Deterministic ==
    /\ \A a, b \in DOMAIN eloResults : eloResults[a] = eloResults[b]
    /\ (pc = "elo_init" /\ i = 1) =>
          /\ playerRatings = EmptyMap
          /\ playerGames = EmptyMap
          /\ playerHistory = EmptyMap
          /\ processedMatches = <<>>
          /\ players = <<>>

\* The second call on a list of at least two matches has returned.
C10_Witness ==
    /\ Len(eloResults) = 2
    /\ Len(matches) >= 2
    /\ Len(eloResults[2].players) >= 4

(***************************************************************************)
(* C11.  The standings engine is a pure function of its input: every call  *)
(* of calculateStandings with the same match list returns the same rows in *)
(* the same order, whatever calls or UI events happen between the calls.   *)
(* Every call of a behaviour is given the same list, groupMatches, so the  *)
(* statement is that all returned values are equal.  It does not hold: the *)
(* function filters its rows by the module-level currentGenderFilter,      *)
(* which a click on a gender button changes between two calls.             *)
(***************************************************************************)
C11_PureFunctionOfInput ==
    \A r \in DOMAIN standingsResults : \A q \in DOMAIN standingsResults :
        standingsResults[r] = standingsResults[q]

(***************************************************************************)
(* Helper functions that exist in two implementations: the Italian points  *)
(* of the server (server/db, getSeasonRating) next to those of the page,   *)
(* and the gender of a name at import time next to that of the page.       *)
(***************************************************************************)
MaxScore == 5        \* largest score given to getItalianPoints

\* Server side: the same table behind an equal-score guard.
getItalianPointsServer(myScore, oppScore) ==
    IF myScore = oppScore THEN 0
    ELSE LET diff == Abs(myScore - oppScore)
             isBalanced == diff = 2
         IN  IF myScore > oppScore
             THEN (IF isBalanced THEN 2 ELSE 3)
             ELSE (IF isBalanced THEN 1 ELSE 0)

\* Import script: the known female first names.
FEMALE_NAMES_IMPORT ==
    { <<"M","a","r","i","ya">>,
      <<"A","n","n","a">>,
      <<"O","l","soft","g","a">>,
      <<"S","v","e","t","l","a","n","a">>,
      <<"Yu","l","i","ya">>,
      <<"N","a","t","a","l","soft","ya">>,
      <<"E","k","a","t","e","r","i","n","a">>,
      <<"A","n","a","s","t","a","s","i","ya">>,
      <<"E","l","e","n","a">>,
      <<"T","a","t","soft","ya","n","a">>,
      <<"I","r","i","n","a">>,
      <<"D","a","r","soft","ya">>,
      <<"K","s","e","n","i","ya">>,
      <<"E","v","g","e","n","i","ya">>,
      <<"V","a","s","i","l","i","s","a">>,
      <<"I","n","n","a">>,
      <<"Zh","a","n","n","a">>,
      <<"N","i","n","a">> }
MALE_EXCEPTIONS ==
    { <<"N","i","k","i","t","a">>,
      <<"I","l","soft","ya">>,
      <<"K","i","r","i","l","l">> }

\* String.prototype.toLowerCase, letter by letter: every capital letter of
\* the alphabet has its small letter, the soft and the hard sign included;
\* the Roman numeral of a season name is one token of Latin capitals.
\* Small letters, spaces and signs stay.
LowerLetter(c) ==
    CASE c = "A" -> "a" [] c = "B" -> "b" [] c = "V" -> "v" [] c = "G" -> "g"
      [] c = "D" -> "d" [] c = "E" -> "e" [] c = "Yo" -> "yo"
      [] c = "Zh" -> "zh" [] c = "Z" -> "z" [] c = "I" -> "i"
      [] c = "J" -> "j" [] c = "K" -> "k" [] c = "L" -> "l" [] c = "M" -> "m"
      [] c = "N" -> "n" [] c = "O" -> "o" [] c = "P" -> "p" [] c = "R" -> "r"
      [] c = "S" -> "s" [] c = "T" -> "t" [] c = "U" -> "u" [] c = "F" -> "f"
      [] c = "H" -> "h" [] c = "C" -> "c" [] c = "Ch" -> "ch"
      [] c = "Sh" -> "sh" [] c = "Shch" -> "shch" [] c = "Y" -> "y"
      [] c = "Eh" -> "eh" [] c = "Yu" -> "yu" [] c = "Ya" -> "ya"
      [] c = "Soft" -> "soft" [] c = "Hard" -> "hard"
      [] c = "VII" -> "vii" [] c = "VIII" -> "viii"
      [] OTHER -> c
toLowerCase(word) == [k \in 1..Len(word) |-> LowerLetter(word[k])]

\* word.slice(-n)
SliceLast(word, n) ==
    SubSeq(word, IF Len(word) > n THEN Len(word) - n + 1 ELSE 1, Len(word))

\* Import script: gender of a name (fullName as its words).
getGenderImport(fullName) ==
    LET parts == fullName
        firstName == IF Len(parts) > 1 THEN parts[2] ELSE parts[1]
        lastChar == toLowerCase(SliceLast(firstName, 1))
        lastTwoChars == toLowerCase(SliceLast(firstName, 2))
    IN  IF firstName \in FEMALE_NAMES_IMPORT THEN "female"
        ELSE IF firstName \in MALE_EXCEPTIONS THEN "male"
        ELSE IF lastTwoChars = <<"soft","ya">> THEN "male"
        ELSE IF lastChar = <<"a">> \/ lastChar = <<"ya">> THEN "female"
        ELSE "male"

\* Names given to the two classifiers: those of the players, the two full
\* names the page lists as female, a first name in "-soft-ya" that no list
\* holds, one-word names, an abbreviated name and names in capitals.
GenderNames ==
    { FullName[p] : p \in Players } \cup
    { << <<"P","r","e","o","b","r","a","zh","e","n","s","k","a","ya">>,
         <<"E","k",".">> >>,
      << <<"P","r","e","o","b","r","a","zh","e","n","s","k","a","ya">>,
         <<"E","k","a","t","e","r","i","n","a">> >>,
      << <<"N","e","i","z","v","e","s","t","n","a","ya">>,
         <<"K","s","e","n","i","ya">> >>,
      << <<"I","v","a","n","o","v","a">>, <<"S","o","f","soft","ya">> >>,
      << <<"Z","a","h","a","r","ch","e","n","k","o">>, <<"V","l",".">> >>,
      << <<"K","u","z","soft","m","i","n">>, <<"K","i","r","i","l","l">> >>,
      << <<"A","n","n","a">> >>,
      << <<"I","l","soft","ya">> >>,
      << <<"O","l","e","g">> >>,
      << <<"I","V","A","N","O","V","A">>, <<"A","L","L","A">> >>,
      << <<"I","V","A","N","O","V">>, <<"I","L","Soft","Ya">> >> }

ScoreArgs ==
    { [fn |-> "getItalianPoints", myScore |-> a, opponentScore |-> b] :
        a \in 0..MaxScore, b \in 0..MaxScore }
GenderArgs == { [fn |-> "getGender", fullName |-> n] : n \in GenderNames }

\* One call of an implementation on the arguments at hand.
CallClientItalianPoints ==
    /\ pc = "idle"
    /\ fnArgs \in ScoreArgs
    /\ "client" \notin DOMAIN fnResults
    /\ fnResults' = fnResults @@
           ("client" :> getItalianPoints(fnArgs.myScore, fnArgs.opponentScore))
    /\ UNCHANGED <<matches, groupMatches, pc, events, eloLocals, eloResults,
                   stLocals, standingsResults, currentGenderFilter, rawData,
                   rawTournamentDataStore, parseLocals, serverVars,
                   ratingPageVars, winLossResults, fnArgs>>

CallServerItalianPoints ==
    /\ pc = "idle"
    /\ fnArgs \in ScoreArgs
    /\ "server" \notin DOMAIN fnResults
    /\ fnResults' = fnResults @@
           ("server" :> getItalianPointsServer(fnArgs.myScore,
                                               fnArgs.opponentScore))
    /\ UNCHANGED <<matches, groupMatches, pc, events, eloLocals, eloResults,
                   stLocals, standingsResults, currentGenderFilter, rawData,
                   rawTournamentDataStore, parseLocals, serverVars,
                   ratingPageVars, winLossResults, fnArgs>>

CallPageGender ==
    /\ pc = "idle"
    /\ fnArgs \in GenderArgs
    /\ "page" \notin DOMAIN fnResults
    /\ fnResults' = fnResults @@ ("page" :> getGender(fnArgs.fullName))
    /\ UNCHANGED <<matches, groupMatches, pc, events, eloLocals, eloResults,
                   stLocals, standingsResults, currentGenderFilter, rawData,
                   rawTournamentDataStore, parseLocals, serverVars,
                   ratingPageVars, winLossResults, fnArgs>>

CallImportGender ==
    /\ pc = "idle"
    /\ fnArgs \in GenderArgs
    /\ "import" \notin DOMAIN fnResults
    /\ fnResults' = fnResults @@ ("import" :> getGenderImport(fnArgs.fullName))
    /\ UNCHANGED <<matches, groupMatches, pc, events, eloLocals, eloResults,
                   stLocals, standingsResults, currentGenderFilter, rawData,
                   rawTournamentDataStore, parseLocals, serverVars,
                   ratingPageVars, winLossResults, fnArgs>>

InitFn ==
    /\ ServerIdle
    /\ RatingPageIdle
    /\ fnArgs \in ScoreArgs \cup GenderArgs
    /\ fnResults = EmptyMap
    /\ rawData = NULL
    /\ rawTournamentDataStore = <<>>
    /\ leagueIdx = 1
    /\ groupIdx = 1
    /\ matchIdx = 1
    /\ winLossResults = <<>>
    /\ matches = <<>>
    /\ groupMatches = <<>>
    /\ pc = "idle"
    /\ events = 0
    /\ i = 1
    /\ playerRatings = EmptyMap
    /\ playerGames = EmptyMap
    /\ playerHistory = EmptyMap
    /\ playerOrder = <<>>
    /\ ratingChanges = EmptyMap
    /\ processedMatches = <<>>
    /\ players = <<>>
    /\ eloResults = <<>>
    /\ stI = 1
    /\ stPlayers = EmptyMap
    /\ stOrder = <<>>
    /\ standingsResults = <<>>
    /\ currentGenderFilter = "all"

NextFn ==
    \/ CallClientItalianPoints
    \/ CallServerItalianPoints
    \/ CallPageGender
    \/ CallImportGender

SpecFn == InitFn /\ [][NextFn]_vars

(***************************************************************************)
(* C12.  For different scores getItalianPoints returns 2 for a win by      *)
(* exactly 2, 3 for a win by any other margin, 1 for a loss by exactly 2   *)
(* and 0 for a loss by any other margin; the page's and the server's       *)
(* implementation return the same value for every score pair.              *)
(***************************************************************************)
ItalianTable(my, opp) ==
    IF my - opp = 2 THEN 2
    ELSE IF my > opp THEN 3
    ELSE IF opp - my = 2 THEN 1
    ELSE 0

C12_ItalianPointsTable ==
    fnArgs \in ScoreArgs =>
        /\ \A impl \in DOMAIN fnResults :
              fnArgs.myScore # fnArgs.opponentScore =>
                  fnResults[impl] = ItalianTable(fnArgs.myScore,
                                                 fnArgs.opponentScore)
        /\ DOMAIN fnResults = {"client", "server"} =>
              fnResults["client"] = fnResults["server"]

\* Both implementations have scored a win by exactly 2 with 2 points.
C12_Witness ==
    /\ fnArgs \in ScoreArgs
    /\ fnArgs.myScore - fnArgs.opponentScore = 2
    /\ DOMAIN fnResults = {"client", "server"}
    /\ fnResults["client"] = 2
    /\ fnResults["server"] = 2

(***************************************************************************)
(* Vocabulary of the standings properties, over the group's match list.    *)
(***************************************************************************)
RECURSIVE SumSeq(_)
SumSeq(s) == IF s = <<>> THEN 0 ELSE Head(s) + SumSeq(Tail(s))

MyScore(p, m) == IF p \in Range(m.team1) THEN m.score[1] ELSE m.score[2]
OppScore(p, m) == IF p \in Range(m.team1) THEN m.score[2] ELSE m.score[1]

\* The matches of player p in the list ms: all of them, and those played
\* to a decision.
AllMatchesOf(ms, p) == SelectSeq(ms, LAMBDA m : InMatch(p, m))
DecidedMatchesOf(ms, p) ==
    SelectSeq(ms, LAMBDA m : InMatch(p, m) /\ ~IsDraw(m))

\* The row holds the sums over the matches ms of its player.
RowSumsOver(row, ms) ==
    LET p == row.name IN
    /\ row.games = Len(ms)
    /\ row.wins + row.losses = row.games
    /\ row.wins = Len(SelectSeq(ms, LAMBDA m : MyScore(p, m) > OppScore(p, m)))
    /\ row.italianPoints =
           SumSeq([k \in 1..Len(ms) |->
                      getItalianPoints(MyScore(p, ms[k]), OppScore(p, ms[k]))])
    /\ row.ballsFor = SumSeq([k \in 1..Len(ms) |-> MyScore(p, ms[k])])
    /\ row.ballsAgainst = SumSeq([k \in 1..Len(ms) |-> OppScore(p, ms[k])])
    /\ row.ballsDiff = row.ballsFor - row.ballsAgainst
    /\ Len(row.matchDetails) = Len(ms)
    /\ \A k \in 1..Len(ms) :
          /\ row.matchDetails[k].id = ms[k].id
          /\ row.matchDetails[k].myScore = MyScore(p, ms[k])
          /\ row.matchDetails[k].oppScore = OppScore(p, ms[k])

StandingsRows ==
    UNION { Range(standingsResults[r]) : r \in DOMAIN standingsResults }

\* The value of the last completed call was computed under the filter
\* that is still in force.
LastStandings == standingsResults[Len(standingsResults)]
LastCallDone == pc = "idle" /\ standingsResults # <<>>

(***************************************************************************)
(* C13, as stated.  Every standings row holds the sums over its player's   *)
(* matches in the group: games = number of matches, wins + losses = games, *)
(* italianPoints, pointsFor, pointsAgainst the sums over these matches,    *)
(* pointsDiff = pointsFor - pointsAgainst, one detail entry per match.     *)
(* It fails for a group that holds an equal-score match: the engine skips  *)
(* it, so the player's games are fewer than the player's matches.          *)
(***************************************************************************)
C13_RowSumsOverAllMatches ==
    \A row \in StandingsRows :
        RowSumsOver(row, AllMatchesOf(groupMatches, row.name))

(***************************************************************************)
(* C13, amended.  Every standings row holds the sums over its player's     *)
(* matches with two different scores in the group (games, wins + losses,   *)
(* italianPoints, pointsFor, pointsAgainst, pointsDiff, one detail entry   *)
(* per such match, in input order); and under the filter 'all' every       *)
(* player of such a match has a row.                                       *)
(***************************************************************************)
C13_RowSums ==
    /\ \A row \in StandingsRows :
          RowSumsOver(row, DecidedMatchesOf(groupMatches, row.name))
    /\ (LastCallDone /\ currentGenderFilter = "all") =>
          { LastStandings[k].name : k \in DOMAIN LastStandings } =
              { p \in Players : DecidedMatchesOf(groupMatches, p) # <<>> }

\* A returned row of a player with a draw and a clear win in the group:
\* only the win is counted.
C13_Witness ==
    \E row \in StandingsRows :
        /\ Len(AllMatchesOf(groupMatches, row.name)) = 2
        /\ row.games = 1
        /\ row.wins = 1
        /\ row.italianPoints = 3
        /\ Len(row.matchDetails) = 1

(***************************************************************************)
(* C14.  Every standings list is sorted descending by italianPoints, with  *)
(* pointsDiff (descending) as the only tie-break, the primary key deciding *)
(* before the secondary: rows with points 5, 5, 3 and differences 2, -1,   *)
(* 10 stand in that order.  Rows equal on both keys stand in the order in  *)
(* which their players were first encountered in the group's matches.      *)
(***************************************************************************)
\* The participants of the decided matches of ms, in the order of the loops.
RECURSIVE EncounterOrder(_)
EncounterOrder(ms) ==
    IF ms = <<>> THEN <<>>
    ELSE (IF IsDraw(Head(ms)) THEN <<>> ELSE Participants(Head(ms)))
         \o EncounterOrder(Tail(ms))
FirstEncounter(ms, p) ==
    LET order == EncounterOrder(ms)
    IN  CHOOSE k \in DOMAIN order :
            /\ order[k] = p
            /\ \A j \in 1..(k - 1) : order[j] # p

ExampleRow(n, pts, d) == [name |-> n, italianPoints |-> pts, ballsDiff |-> d]
ExampleRows ==
    { <<x, y, z>> : x \in {"P", "Q", "R"}, y \in {"P", "Q", "R"},
                    z \in {"P", "Q", "R"} }
ExampleOf(n) ==
    CASE n = "P" -> ExampleRow("P", 5, 2)
      [] n = "Q" -> ExampleRow("Q", 5, 0 - 1)
      [] n = "R" -> ExampleRow("R", 3, 10)

C14_SortedByPointsThenDiff ==
    /\ \A r \in DOMAIN standingsResults :
          LET res == standingsResults[r] IN
          \A a \in DOMAIN res : \A b \in DOMAIN res :
              a < b =>
                  \/ res[a].italianPoints > res[b].italianPoints
                  \/ /\ res[a].italianPoints = res[b].italianPoints
                     /\ res[a].ballsDiff > res[b].ballsDiff
                  \/ /\ res[a].italianPoints = res[b].italianPoints
                     /\ res[a].ballsDiff = res[b].ballsDiff
                     /\ FirstEncounter(groupMatches, res[a].name)
                            < FirstEncounter(groupMatches, res[b].name)
    /\ \A t \in ExampleRows :
          Cardinality(Range(t)) = 3 =>
              SortStandings([k \in 1..3 |-> ExampleOf(t[k])])
                  = <<ExampleOf("P"), ExampleOf("Q"), ExampleOf("R")>>

\* A returned list in which the difference breaks a tie on points, the
\* points overrule a larger difference, and two rows are equal on both keys.
C14_Witness ==
    \E r \in DOMAIN standingsResults :
        LET res == standingsResults[r] IN
        /\ \E a \in DOMAIN res : \E b \in DOMAIN res :
              /\ a < b
              /\ res[a].italianPoints = res[b].italianPoints
              /\ res[a].ballsDiff > res[b].ballsDiff
        /\ \E a \in DOMAIN res : \E b \in DOMAIN res :
              /\ a < b
              /\ res[a].italianPoints > res[b].italianPoints
              /\ res[a].ballsDiff < res[b].ballsDiff
        /\ \E a \in DOMAIN res : \E b \in DOMAIN res :
              /\ a < b
              /\ res[a].italianPoints = res[b].italianPoints
              /\ res[a].ballsDiff = res[b].ballsDiff

(***************************************************************************)
(* calculateStandings as one function of its argument and of the filter:   *)
(* the loop of StandingsMatch and StandingsAccumulate run to its end,      *)
(* followed by ReturnStandings.                                            *)
(***************************************************************************)
RECURSIVE AggregateFrom(_, _, _)
AggregateFrom(rows, order, ms) ==
    IF ms = <<>> THEN [rows |-> rows, order |-> order]
    ELSE LET match == Head(ms)
             new == NewKeys(Participants(match), DOMAIN rows)
             created == rows @@ [p \in Range(new) |-> NewRow(p)]
             team1Won == match.score[1] > match.score[2]
             after1 == AccumulateTeam(created, match.team1, match.id,
                                      match.score[1], match.score[2], team1Won)
             after2 == AccumulateTeam(after1, match.team2, match.id,
                                      match.score[2], match.score[1], ~team1Won)
         IN  IF match.score[1] = match.score[2]
             THEN AggregateFrom(rows, order, Tail(ms))
             ELSE AggregateFrom(after2, order \o new, Tail(ms))

Aggregate(ms) == AggregateFrom(EmptyMap, <<>>, ms)

calculateStandings(ms, filter) ==
    LET agg == Aggregate(ms)
    IN  FinishStandings(agg.rows, agg.order, filter)

Reorderings(ms) ==
    { [k \in DOMAIN ms |-> ms[f[k]]] :
        f \in { g \in [DOMAIN ms -> DOMAIN ms] :
                  \A x \in DOMAIN ms : \A y \in DOMAIN ms :
                      g[x] = g[y] => x = y } }

\* A row without its per-match details.
Totals(row) ==
    [name |-> row.name, gender |-> row.gender, games |-> row.games,
     wins |-> row.wins, losses |-> row.losses,
     italianPoints |-> row.italianPoints, ballsFor |-> row.ballsFor,
     ballsAgainst |-> row.ballsAgainst, ballsDiff |-> row.ballsDiff]
TotalsList(res) == [k \in DOMAIN res |-> Totals(res[k])]
SortKeys(res) ==
    [k \in DOMAIN res |-> <<res[k].italianPoints, res[k].ballsDiff>>]
DetailsByName(res) ==
    { <<res[k].name, Range(res[k].matchDetails)>> : k \in DOMAIN res }

(***************************************************************************)
(* C15, as stated.  For any permutation of the group's match list          *)
(* calculateStandings returns the same ranked list of rows with the same   *)
(* totals; only the order inside each row's detail list follows the input. *)
(* It fails where two players are equal on both sort keys: they stand in   *)
(* the order of their first appearance, which the permutation changes.     *)
(***************************************************************************)
C15_SameRankedList ==
    LastCallDone =>
        /\ LastStandings = calculateStandings(groupMatches, currentGenderFilter)
        /\ \A q \in Reorderings(groupMatches) :
              LET res == calculateStandings(q, currentGenderFilter) IN
              /\ TotalsList(res) = TotalsList(LastStandings)
              /\ DetailsByName(res) = DetailsByName(LastStandings)

(***************************************************************************)
(* C15, amended.  For any permutation of the group's match list            *)
(* calculateStandings returns the same rows with the same totals and the   *)
(* same detail entries, and the same sequence of sort keys (italianPoints, *)
(* pointsDiff) down the list: the two lists differ at most in the order of *)
(* rows that are equal on both keys, and in the order of the detail lists. *)
(***************************************************************************)
C15_OrderInsensitiveUpToTies ==
    LastCallDone =>
        /\ LastStandings = calculateStandings(groupMatches, currentGenderFilter)
        /\ \A q \in Reorderings(groupMatches) :
              LET res == calculateStandings(q, currentGenderFilter) IN
              /\ Range(TotalsList(res)) = Range(TotalsList(LastStandings))
              /\ Len(res) = Len(LastStandings)
              /\ SortKeys(res) = SortKeys(LastStandings)
              /\ DetailsByName(res) = DetailsByName(LastStandings)

\* A call has returned for a list of two decided matches whose exchange
\* moves two rows that are equal on both keys and reverses a detail list.
C15_Witness ==
    /\ LastCallDone
    /\ Len(groupMatches) = 2
    /\ \E q \in Reorderings(groupMatches) :
          LET res == calculateStandings(q, currentGenderFilter) IN
          /\ TotalsList(res) # TotalsList(LastStandings)
          /\ \E k \in DOMAIN res :
                /\ Len(res[k].matchDetails) = 2
                /\ res[k].matchDetails[1].id = "m2"

(***************************************************************************)
(* C16.  Splitting the group's match list in two, aggregating each part    *)
(* and adding the accumulators of every player (games, wins, losses,       *)
(* italianPoints, pointsFor, pointsAgainst, details concatenated) gives    *)
(* the rows of one aggregation over the whole list.  The first part is the *)
(* one the running call has aggregated so far.                             *)
(***************************************************************************)
MergeRow(x, y) ==
    [name |-> x.name, gender |-> x.gender,
     games |-> x.games + y.games,
     wins |-> x.wins + y.wins,
     losses |-> x.losses + y.losses,
     italianPoints |-> x.italianPoints + y.italianPoints,
     ballsFor |-> x.ballsFor + y.ballsFor,
     ballsAgainst |-> x.ballsAgainst + y.ballsAgainst,
     matchDetails |-> x.matchDetails \o y.matchDetails]
MergeRows(a, b) ==
    [p \in DOMAIN a \cup DOMAIN b |->
        IF p \in DOMAIN a /\ p \in DOMAIN b THEN MergeRow(a[p], b[p])
        ELSE IF p \in DOMAIN a THEN a[p]
        ELSE b[p]]

C16_SplitAndMerge ==
    LET n == Len(groupMatches)
        whole == Aggregate(groupMatches).rows
    IN  /\ pc = "st_match" =>
              LET rest == Aggregate(SubSeq(groupMatches, stI, n)).rows IN
              /\ stPlayers = Aggregate(SubSeq(groupMatches, 1, stI - 1)).rows
              /\ MergeRows(stPlayers, rest) = whole
              /\ stI = n + 1 => stPlayers = whole
        /\ \A k \in 0..n :
              MergeRows(Aggregate(SubSeq(groupMatches, 1, k)).rows,
                        Aggregate(SubSeq(groupMatches, k + 1, n)).rows) = whole

\* The call stands between two decided matches that share a player.
C16_Witness ==
    /\ pc = "st_match"
    /\ stI = 2
    /\ Len(groupMatches) = 2
    /\ ~IsDraw(groupMatches[1])
    /\ ~IsDraw(groupMatches[2])
    /\ \E p \in DOMAIN stPlayers :
          /\ InMatch(p, groupMatches[2])
          /\ stPlayers[p].games = 1
    /\ \E p \in DOMAIN stPlayers : ~InMatch(p, groupMatches[2])
    /\ \E p \in Players : InMatch(p, groupMatches[2]) /\ p \notin DOMAIN stPlayers

(***************************************************************************)
(* The win/loss standings of the first tournament page                     *)
(* (src/src/modules/tournamentUI.js): the same loop without gender and     *)
(* Italian points, ranked by wins and point difference.                    *)
(***************************************************************************)
NewRowWinLoss(playerName) ==
    [name |-> playerName, games |-> 0, wins |-> 0, losses |-> 0,
     pointsFor |-> 0, pointsAgainst |-> 0]

\* Variant of AccumulateTeamWinLoss that counts a lost match as no game.
RECURSIVE AccumulateTeamWinLossWinsOnly(_, _, _, _, _)
AccumulateTeamWinLossWinsOnly(rows, team, myScore, oppScore, won) ==
    IF team = <<>> THEN rows
    ELSE LET p == rows[Head(team)]
             q == [p EXCEPT
                     !.games = IF won THEN @ + 1 ELSE @,
                     !.wins = IF won THEN @ + 1 ELSE @,
                     !.losses = IF won THEN @ ELSE @ + 1,
                     !.pointsFor = @ + myScore,
                     !.pointsAgainst = @ + oppScore]
         IN  AccumulateTeamWinLossWinsOnly([rows EXCEPT ![Head(team)] = q],
                                           Tail(team), myScore, oppScore, won)

RECURSIVE AccumulateTeamWinLoss(_, _, _, _, _)
AccumulateTeamWinLoss(rows, team, myScore, oppScore, won) ==
    IF team = <<>> THEN rows
    ELSE LET p == rows[Head(team)]
             q == [p EXCEPT
                     !.games = @ + 1,
                     !.wins = IF won THEN @ + 1 ELSE @,
                     !.losses = IF won THEN @ ELSE @ + 1,
                     !.pointsFor = @ + myScore,
                     !.pointsAgainst = @ + oppScore]
         IN  AccumulateTeamWinLoss([rows EXCEPT ![Head(team)] = q],
                                   Tail(team), myScore, oppScore, won)

RECURSIVE AggregateWinLossFrom(_, _, _)
AggregateWinLossFrom(rows, order, ms) ==
    IF ms = <<>> THEN [rows |-> rows, order |-> order]
    ELSE LET match == Head(ms)
             new == NewKeys(Participants(match), DOMAIN rows)
             created == rows @@ [p \in Range(new) |-> NewRowWinLoss(p)]
             team1Won == match.score[1] > match.score[2]
             after1 == AccumulateTeamWinLoss(created, match.team1,
                           match.score[1], match.score[2], team1Won)
             after2 == AccumulateTeamWinLoss(after1, match.team2,
                           match.score[2], match.score[1], ~team1Won)
         IN  IF match.score[1] = match.score[2]
             THEN AggregateWinLossFrom(rows, order, Tail(ms))
             ELSE AggregateWinLossFrom(after2, order \o new, Tail(ms))

\* The ratios wins / games whose product with 100 lies exactly on a half
\* and comes out of the double-precision arithmetic just below it, in
\* two-hundredths: (23 / 40) * 100 = 57.49999999999999.  The quotient is
\* the double nearest the ratio, so the outcome depends on the ratio only;
\* every other product on a half is exact or lies above it.
HalvesRoundedDown == {29, 57, 113, 115}

\* Math.round((wins / games) * 100), in double precision: the nearest
\* integer, a half going up, one less for the ratios of HalvesRoundedDown.
WinRate(wins, games) ==
    IF games > 0
    THEN LET nearest == (200 * wins + games) \div (2 * games)
         IN  IF \E k \in HalvesRoundedDown : 200 * wins = k * games
             THEN nearest - 1
             ELSE nearest
    ELSE 0

StandsBeforeWinLoss(x, y) ==
    IF y.wins # x.wins
    THEN x.wins - y.wins > 0
    ELSE x.pointsDiff - y.pointsDiff > 0

RECURSIVE InsertWinLoss(_, _)
InsertWinLoss(sorted, x) ==
    IF sorted = <<>> THEN <<x>>
    ELSE IF StandsBeforeWinLoss(x, Head(sorted)) THEN <<x>> \o sorted
    ELSE <<Head(sorted)>> \o InsertWinLoss(Tail(sorted), x)

RECURSIVE SortWinLoss(_)
SortWinLoss(arr) ==
    IF arr = <<>> THEN <<>>
    ELSE InsertWinLoss(SortWinLoss(SubSeq(arr, 1, Len(arr) - 1)), arr[Len(arr)])

calculateStandingsWinLoss(ms) ==
    LET agg == AggregateWinLossFrom(EmptyMap, <<>>, ms)
        values == [k \in 1..Len(agg.order) |-> agg.rows[agg.order[k]]]
        mapped == [k \in 1..Len(values) |->
                      [name |-> values[k].name, games |-> values[k].games,
                       wins |-> values[k].wins, losses |-> values[k].losses,
                       pointsFor |-> values[k].pointsFor,
                       pointsAgainst |-> values[k].pointsAgainst,
                       pointsDiff |-> values[k].pointsFor
                                        - values[k].pointsAgainst,
                       winRate |-> WinRate(values[k].wins, values[k].games)]]
    IN  SortWinLoss(mapped)

\* renderGroupSection of the first page: the group's win/loss table.
RenderGroupSectionWinLoss ==
    /\ pc = "idle"
    /\ events < MaxEvents
    /\ events' = events + 1
    /\ winLossResults' =
           Append(winLossResults, calculateStandingsWinLoss(groupMatches))
    /\ UNCHANGED <<matches, groupMatches, pc, eloLocals, eloResults, stLocals,
                   standingsResults, currentGenderFilter, rawData,
                   rawTournamentDataStore, parseLocals, serverVars,
                   ratingPageVars, fnArgs, fnResults>>

\* One group rendered by both pages, the gender filter left at 'all'.
NextWinLoss ==
    \/ RenderGroupSection
    \/ StandingsMatch
    \/ StandingsAccumulate
    \/ ReturnStandings
    \/ RenderGroupSectionWinLoss

SpecWinLoss == Init /\ [][NextWinLoss]_vars

(***************************************************************************)
(* C17.  For the same match list, and without gender filtering, the        *)
(* win/loss standings and the Italian standings hold the same players with *)
(* the same games, wins, losses, points for, points against and point      *)
(* difference; they differ in the ranking key only: (wins, pointsDiff)     *)
(* for the one, (italianPoints, pointsDiff) for the other.                 *)
(***************************************************************************)
CommonOfItalian(row) ==
    [name |-> row.name, games |-> row.games, wins |-> row.wins,
     losses |-> row.losses, pointsFor |-> row.ballsFor,
     pointsAgainst |-> row.ballsAgainst, pointsDiff |-> row.ballsDiff]
CommonOfWinLoss(row) ==
    [name |-> row.name, games |-> row.games, wins |-> row.wins,
     losses |-> row.losses, pointsFor |-> row.pointsFor,
     pointsAgainst |-> row.pointsAgainst, pointsDiff |-> row.pointsDiff]
RankedBy(res, Before(_, _)) ==
    \A a \in DOMAIN res : \A b \in DOMAIN res :
        a < b => ~Before(res[b], res[a])

C17_SameAggregationTwoRankings ==
    /\ \A r \in DOMAIN standingsResults : \A w \in DOMAIN winLossResults :
          LET it == standingsResults[r]
              wl == winLossResults[w]
          IN  /\ currentGenderFilter = "all"
              /\ Len(it) = Len(wl)
              /\ { CommonOfItalian(it[k]) : k \in DOMAIN it }
                    = { CommonOfWinLoss(wl[k]) : k \in DOMAIN wl }
    /\ \A r \in DOMAIN standingsResults :
          RankedBy(standingsResults[r], StandsBefore)
    /\ \A w \in DOMAIN winLossResults :
          RankedBy(winLossResults[w], StandsBeforeWinLoss)

\* Both tables of a group of two decided matches have been computed, and
\* they rank its players differently.
C17_Witness ==
    /\ Len(groupMatches) = 2
    /\ \E r \in DOMAIN standingsResults : \E w \in DOMAIN winLossResults :
          LET it == standingsResults[r]
              wl == winLossResults[w]
          IN  /\ Len(it) >= 4
              /\ [k \in DOMAIN it |-> it[k].name]
                    # [k \in DOMAIN wl |-> wl[k].name]

(***************************************************************************)
(* C19.  Both classifiers, the import script's and the page's, call a name *)
(* female when its first name is in the fixed set of female first names,   *)
(* male when it is one of the fixed male exceptions, and otherwise female  *)
(* exactly when the first name ends in "a", "ya" or "soft-ya".  It does    *)
(* not hold: the import script calls a first name in "soft-ya" male, the   *)
(* page's set also holds two full names, and only the import script        *)
(* lower-cases the ending.                                                 *)
(***************************************************************************)
FemaleFirstNames == { n[1] : n \in { m \in FEMALE_NAMES : Len(m) = 1 } }
ClaimedGender(fullName) ==
    LET firstName == IF Len(fullName) > 1 THEN fullName[2] ELSE fullName[1]
    IN  IF firstName \in FemaleFirstNames THEN "female"
        ELSE IF firstName \in maleExceptions THEN "male"
        ELSE IF \/ EndsWith(firstName, <<"a">>)
                \/ EndsWith(firstName, <<"ya">>)
                \/ EndsWith(firstName, <<"soft","ya">>)
             THEN "female"
        ELSE "male"

C19_GenderRule ==
    fnArgs \in GenderArgs =>
        \A impl \in DOMAIN fnResults :
            fnResults[impl] = ClaimedGender(fnArgs.fullName)

(***************************************************************************)
(* The data manager (dataManager.js): loadTournamentData parses the        *)
(* tournament JSON into the match list and hands it to processAllMatches.  *)
(* Names of tournaments, leagues and groups are sequences of letters, " "  *)
(* a white-space character.                                                *)
(***************************************************************************)
NAME_NORMALIZATIONS == [F |-> "G", H |-> "I", J |-> "K"]

\* NAME_NORMALIZATIONS[name] || name
normalizeName(name) ==
    IF name \in DOMAIN NAME_NORMALIZATIONS THEN NAME_NORMALIZATIONS[name]
    ELSE name

\* s.replace(/\s+/g, '-')
RECURSIVE DropLeadingSpaces(_)
DropLeadingSpaces(s) ==
    IF s # <<>> /\ Head(s) = " " THEN DropLeadingSpaces(Tail(s)) ELSE s
RECURSIVE ReplaceSpaces(_)
ReplaceSpaces(s) ==
    IF s = <<>> THEN <<>>
    ELSE IF Head(s) = " "
         THEN <<"-">> \o ReplaceSpaces(DropLeadingSpaces(Tail(s)))
    ELSE <<Head(s)>> \o ReplaceSpaces(Tail(s))

\* Decimal digits of a number, as the template string writes it.
DigitChars == <<"0","1","2","3","4","5","6","7","8","9">>
RECURSIVE NumberToString(_)
NumberToString(n) ==
    IF n < 10 THEN <<DigitChars[n + 1]>>
    ELSE NumberToString(n \div 10) \o <<DigitChars[(n % 10) + 1]>>

generateMatchId(tournament, league, group, id) ==
    LET tournamentSlug == ReplaceSpaces(toLowerCase(tournament))
        leagueSlug == ReplaceSpaces(toLowerCase(league))
    IN  tournamentSlug \o <<"_">> \o leagueSlug \o <<"_">> \o group
            \o <<"_">> \o NumberToString(id)

PlayoffName == <<"p","l","a","y","o","f","f">>

\* The record pushed for a match of a group.
GroupMatchRecord(tournament, date, league, group, match) ==
    [id |-> generateMatchId(tournament, league.name, group.name, match.id),
     date |-> date,
     tournament |-> tournament,
     league |-> league.name,
     group |-> group.name,
     stage |-> IF group.stage \in {NULL, ""} THEN "qualification"
               ELSE group.stage,
     court |-> match.court,
     team1 |-> [k \in DOMAIN match.team1 |-> normalizeName(match.team1[k])],
     team2 |-> [k \in DOMAIN match.team2 |-> normalizeName(match.team2[k])],
     score |-> match.score,
     winner |-> IF match.score[1] > match.score[2] THEN 1 ELSE 2]

\* The record pushed for a playoff match.
PlayoffMatchRecord(tournament, date, league, match) ==
    [id |-> generateMatchId(tournament, league.name, PlayoffName, match.id),
     date |-> date,
     tournament |-> tournament,
     league |-> league.name,
     group |-> PlayoffName,
     stage |-> "playoff",
     round |-> match.round,
     team1 |-> [k \in DOMAIN match.team1 |-> normalizeName(match.team1[k])],
     team2 |-> [k \in DOMAIN match.team2 |-> normalizeName(match.team2[k])],
     score |-> match.score,
     winner |-> IF match.score[1] > match.score[2] THEN 1 ELSE 2]

(***************************************************************************)
(* Tournament files given to the data manager: two leagues, the first with *)
(* groups A and B and a playoff, the second with group A and no playoff;   *)
(* up to MaxMatches matches spread over these four lists, or, in a plainly *)
(* named file, MaxMatches decided matches and one draw before, between or  *)
(* after them.  A match is a win of team 1, a win of team 2 with an        *)
(* abbreviated name, or a draw.                                            *)
(* An optional object (league.playoff) is <<>> when absent and <<object>>  *)
(* when present; the object may lack its matches (no such field, or null). *)
(***************************************************************************)
TournamentName == <<"N","a","g","o","r","n","a","ya">>
League1Name == <<"V","y","s","sh","a","ya"," ","l","i","g","a">>
League2Name == <<"P","e","r","v","a","ya"," ","l","i","g","a">>

Slots == {"1A", "1B", "1P", "2A"}
Kinds == {"win1", "win2", "draw"}

RawMatch(kind, id, inPlayoff) ==
    LET teams ==
            CASE kind = "win1" ->
                   [team1 |-> <<"A","B">>, team2 |-> <<"C","D">>,
                    score |-> <<21,15>>]
              [] kind = "win2" ->
                   [team1 |-> <<"F","C">>, team2 |-> <<"D","E">>,
                    score |-> <<19,21>>]
              [] kind = "draw" ->
                   [team1 |-> <<"B","A">>, team2 |-> <<"D","C">>,
                    score |-> <<15,15>>]
    IN  IF inPlayoff
        THEN [id |-> id, round |-> "final", team1 |-> teams.team1,
              team2 |-> teams.team2, score |-> teams.score]
        ELSE [id |-> id, court |-> 1, team1 |-> teams.team1,
              team2 |-> teams.team2, score |-> teams.score]

SlotMatches(a, slot) ==
    LET sel == SelectSeq(a, LAMBDA x : x[1] = slot)
    IN  [k \in 1..Len(sel) |-> RawMatch(sel[k][2], k, slot = "1P")]

\* How the file names its leagues and groups: plainly; with the second
\* group of the first league named like the playoff stage; or with the
\* second league named as the first in another case and spacing.  A
\* plainly named file may give the second league a playoff object without
\* matches: playoff: {matches: null} or playoff: {name: 'playoff'}.
Namings == {"plain", "playoffGroup", "caseTwin", "playoffNull", "playoffBare"}
League1Twin == <<"v","y","s","sh","a","ya"," "," ","L","I","G","A">>

RawTournament(a, naming) ==
    [tournament |-> TournamentName,
     date |-> Date1,
     leagues |-> <<
        [name |-> League1Name,
         groups |-> << [name |-> <<"A">>, stage |-> NULL,
                        matches |-> SlotMatches(a, "1A")],
                       [name |-> IF naming = "playoffGroup" THEN PlayoffName
                                 ELSE <<"B">>,
                        stage |-> "qualification",
                        matches |-> SlotMatches(a, "1B")] >>,
         playoff |-> <<[matches |-> SlotMatches(a, "1P")]>>],
        [name |-> IF naming = "caseTwin" THEN League1Twin ELSE League2Name,
         groups |-> << [name |-> <<"A">>, stage |-> "",
                        matches |-> SlotMatches(a, "2A")] >>,
         playoff |-> CASE naming = "playoffNull" -> <<[matches |-> NULL]>>
                       [] naming = "playoffBare" -> <<[name |-> PlayoffName]>>
                       [] OTHER -> <<>>] >>]

\* The match lists of n decided matches and one draw.
WithOneDraw(n) ==
    { a \in [1..(n + 1) -> Slots \X Kinds] :
        Cardinality({ k \in 1..(n + 1) : a[k][2] = "draw" }) = 1 }

RawTournaments ==
    { RawTournament(a, naming) :
        a \in SeqsUpTo(Slots \X Kinds, MaxMatches), naming \in Namings }
    \cup { RawTournament(a, "plain") : a \in WithOneDraw(MaxMatches) }

(***************************************************************************)
(* loadTournamentData, step by step: parseRawTournamentData, then          *)
(* processAllMatches on the list it returns.                               *)
(***************************************************************************)
pageVars == <<groupMatches, stLocals, standingsResults, currentGenderFilter,
              winLossResults, fnArgs, fnResults, serverVars, ratingPageVars>>

\* main: loadTournamentData(tournamentData); the parser starts with an
\* empty array and stores the raw data.
LoadTournamentData ==
    /\ pc = "idle"
    /\ events < MaxEvents
    /\ events' = events + 1
    /\ matches' = <<>>
    /\ rawTournamentDataStore' = <<rawData>>
    /\ leagueIdx' = 1
    /\ pc' = "parse_league"
    /\ UNCHANGED <<rawData, groupIdx, matchIdx, eloLocals, eloResults, pageVars>>

\* leagues.forEach: the next league, its groups first.
ParseLeague ==
    /\ pc = "parse_league"
    /\ leagueIdx <= Len(rawData.leagues)
    /\ groupIdx' = 1
    /\ pc' = "parse_group"
    /\ UNCHANGED <<rawData, rawTournamentDataStore, matches, leagueIdx,
                   matchIdx, events, eloLocals, eloResults, pageVars>>

\* league.groups.forEach: the next group.
ParseGroup ==
    /\ pc = "parse_group"
    /\ groupIdx <= Len(rawData.leagues[leagueIdx].groups)
    /\ matchIdx' = 1
    /\ pc' = "parse_match"
    /\ UNCHANGED <<rawData, rawTournamentDataStore, matches, leagueIdx,
                   groupIdx, events, eloLocals, eloResults, pageVars>>

\* Variant of ParseGroupMatch that pushes a draw like any other match.
ParseGroupMatchKeepsDraw ==
    /\ pc = "parse_match"
    /\ matchIdx <= Len(rawData.leagues[leagueIdx].groups[groupIdx].matches)
    /\ LET league == rawData.leagues[leagueIdx]
           group == league.groups[groupIdx]
           match == group.matches[matchIdx]
       IN  matches' = Append(matches,
                          GroupMatchRecord(rawData.tournament, rawData.date,
                                           league, group, match))
    /\ matchIdx' = matchIdx + 1
    /\ UNCHANGED <<rawData, rawTournamentDataStore, leagueIdx, groupIdx, pc,
                   events, eloLocals, eloResults, pageVars>>

\* Variant of ParseGroupMatch that puts the match at the front of the array.
ParseGroupMatchUnshift ==
    /\ pc = "parse_match"
    /\ matchIdx <= Len(rawData.leagues[leagueIdx].groups[groupIdx].matches)
    /\ LET league == rawData.leagues[leagueIdx]
           group == league.groups[groupIdx]
           match == group.matches[matchIdx]
       IN  IF match.score[1] = match.score[2]
           THEN UNCHANGED matches
           ELSE matches' = <<GroupMatchRecord(rawData.tournament, rawData.date,
                                              league, group, match)>>
                              \o matches
    /\ matchIdx' = matchIdx + 1
    /\ UNCHANGED <<rawData, rawTournamentDataStore, leagueIdx, groupIdx, pc,
                   events, eloLocals, eloResults, pageVars>>

\* group.matches.forEach: a draw is skipped, any other match is pushed.
ParseGroupMatch ==
    /\ pc = "parse_match"
    /\ matchIdx <= Len(rawData.leagues[leagueIdx].groups[groupIdx].matches)
    /\ LET league == rawData.leagues[leagueIdx]
           group == league.groups[groupIdx]
           match == group.matches[matchIdx]
       IN  IF match.score[1] = match.score[2]
           THEN UNCHANGED matches
           ELSE matches' = Append(matches,
                               GroupMatchRecord(rawData.tournament,
                                                rawData.date, league, group,
                                                match))
    /\ matchIdx' = matchIdx + 1
    /\ UNCHANGED <<rawData, rawTournamentDataStore, leagueIdx, groupIdx, pc,
                   events, eloLocals, eloResults, pageVars>>

\* End of group.matches.forEach.
ParseGroupDone ==
    /\ pc = "parse_match"
    /\ matchIdx > Len(rawData.leagues[leagueIdx].groups[groupIdx].matches)
    /\ groupIdx' = groupIdx + 1
    /\ pc' = "parse_group"
    /\ UNCHANGED <<rawData, rawTournamentDataStore, matches, leagueIdx,
                   matchIdx, events, eloLocals, eloResults, pageVars>>

\* Whether a value of any kind, a list included, is null.
IsNull(v) == ToString(v) = ToString(NULL)

\* league.playoff && league.playoff.matches
HasPlayoffMatches(league) ==
    /\ league.playoff # <<>>
    /\ "matches" \in DOMAIN league.playoff[1]
    /\ ~IsNull(league.playoff[1].matches)

\* End of league.groups.forEach: the playoff, if the league has one with
\* matches.
ParsePlayoff ==
    /\ pc = "parse_group"
    /\ groupIdx > Len(rawData.leagues[leagueIdx].groups)
    /\ LET league == rawData.leagues[leagueIdx]
       IN  IF HasPlayoffMatches(league)
           THEN /\ matchIdx' = 1
                /\ pc' = "parse_playoff"
                /\ UNCHANGED leagueIdx
           ELSE /\ leagueIdx' = leagueIdx + 1
                /\ pc' = "parse_league"
                /\ UNCHANGED matchIdx
    /\ UNCHANGED <<rawData, rawTournamentDataStore, matches, groupIdx, events,
                   eloLocals, eloResults, pageVars>>

\* league.playoff.matches.forEach: a draw is skipped.
ParsePlayoffMatch ==
    /\ pc = "parse_playoff"
    /\ matchIdx <= Len(rawData.leagues[leagueIdx].playoff[1].matches)
    /\ LET league == rawData.leagues[leagueIdx]
           match == league.playoff[1].matches[matchIdx]
       IN  IF match.score[1] = match.score[2]
           THEN UNCHANGED matches
           ELSE matches' = Append(matches,
                               PlayoffMatchRecord(rawData.tournament,
                                                  rawData.date, league, match))
    /\ matchIdx' = matchIdx + 1
    /\ UNCHANGED <<rawData, rawTournamentDataStore, leagueIdx, groupIdx, pc,
                   events, eloLocals, eloResults, pageVars>>

\* End of the playoff loop and of this league.
ParsePlayoffDone ==
    /\ pc = "parse_playoff"
    /\ matchIdx > Len(rawData.leagues[leagueIdx].playoff[1].matches)
    /\ leagueIdx' = leagueIdx + 1
    /\ pc' = "parse_league"
    /\ UNCHANGED <<rawData, rawTournamentDataStore, matches, groupIdx,
                   matchIdx, events, eloLocals, eloResults, pageVars>>

\* parseRawTournamentData returns; loadTournamentData calls
\* processAllMatches(matches), which starts with fresh Maps and arrays.
ReturnParse ==
    /\ pc = "parse_league"
    /\ leagueIdx > Len(rawData.leagues)
    /\ pc' = "elo_init"
    /\ i' = 1
    /\ playerRatings' = EmptyMap
    /\ playerGames' = EmptyMap
    /\ playerHistory' = EmptyMap
    /\ playerOrder' = <<>>
    /\ ratingChanges' = EmptyMap
    /\ processedMatches' = <<>>
    /\ players' = <<>>
    /\ UNCHANGED <<rawData, rawTournamentDataStore, parseLocals, serverVars,
                   ratingPageVars, matches,
                   events, eloResults, pageVars>>

\* The main page loads a tournament file and the tournament page renders
\* the first group of its first league.
InitParse ==
    /\ ServerIdle
    /\ RatingPageIdle
    /\ rawData \in RawTournaments
    /\ groupMatches = rawData.leagues[1].groups[1].matches
    /\ matches = <<>>
    /\ rawTournamentDataStore = <<>>
    /\ leagueIdx = 1
    /\ groupIdx = 1
    /\ matchIdx = 1
    /\ winLossResults = <<>>
    /\ fnArgs = NULL
    /\ fnResults = EmptyMap
    /\ pc = "idle"
    /\ events = 0
    /\ i = 1
    /\ playerRatings = EmptyMap
    /\ playerGames = EmptyMap
    /\ playerHistory = EmptyMap
    /\ playerOrder = <<>>
    /\ ratingChanges = EmptyMap
    /\ processedMatches = <<>>
    /\ players = <<>>
    /\ eloResults = <<>>
    /\ stI = 1
    /\ stPlayers = EmptyMap
    /\ stOrder = <<>>
    /\ standingsResults = <<>>
    /\ currentGenderFilter = "all"

NextParse ==
    \/ LoadTournamentData
    \/ ParseLeague
    \/ ParseGroup
    \/ ParseGroupMatch
    \/ ParseGroupDone
    \/ ParsePlayoff
    \/ ParsePlayoffMatch
    \/ ParsePlayoffDone
    \/ ReturnParse
    \/ InitPlayers
    \/ InitPlayersDone
    \/ ProcessMatch
    \/ ApplyChanges
    \/ ProcessDone
    \/ BuildPlayers
    \/ SortPlayers
    \/ ReturnProcessAllMatches
    \/ RenderGroupSection
    \/ StandingsMatch
    \/ StandingsAccumulate
    \/ ReturnStandings

SpecParse == InitParse /\ [][NextParse]_vars

(***************************************************************************)
(* C18.  A match with equal scores reaches neither accumulation: every     *)
(* match parseRawTournamentData has emitted, and so every match            *)
(* processAllMatches is given by loadTournamentData, has two different     *)
(* scores and winner = 1 exactly when score[0] > score[1], else 2; and     *)
(* calculateStandings leaves all rows as they are on an equal-score match: *)
(* its Map is the one the decided matches alone produce.                   *)
(***************************************************************************)
EloPcs == {"elo_init", "elo_process", "elo_apply", "elo_build", "elo_sort",
           "elo_return"}
DecidedOnly(ms) == SelectSeq(ms, LAMBDA m : ~IsDraw(m))

C18_NoDrawReachesAccumulation ==
    /\ \A k \in DOMAIN matches :
          /\ matches[k].score[1] # matches[k].score[2]
          /\ matches[k].winner = 1 <=> matches[k].score[1] > matches[k].score[2]
          /\ matches[k].winner \in {1, 2}
    /\ \A k \in DOMAIN processedMatches :
          processedMatches[k].score[1] # processedMatches[k].score[2]
    /\ \A p \in DOMAIN stPlayers :
          \A k \in DOMAIN stPlayers[p].matchDetails :
              stPlayers[p].matchDetails[k].myScore
                  # stPlayers[p].matchDetails[k].oppScore
    /\ pc = "st_match" =>
          LET seen == SubSeq(groupMatches, 1, stI - 1) IN
          /\ stPlayers = Aggregate(DecidedOnly(seen)).rows
          /\ stOrder = Aggregate(DecidedOnly(seen)).order

\* The tournament has been loaded and its first group rendered; the group
\* holds a draw and a decided match, and only the decided match is in the
\* list given to the Elo engine and in the rows.
C18_Witness ==
    /\ pc = "idle"
    /\ eloResults # <<>>
    /\ standingsResults # <<>>
    /\ Len(groupMatches) = 2
    /\ IsDraw(groupMatches[1])
    /\ ~IsDraw(groupMatches[2])
    /\ Len(matches) = 1
    /\ Len(eloResults[Len(eloResults)].matches) = 1
    /\ Len(LastStandings) = 4
    /\ \A k \in DOMAIN LastStandings : LastStandings[k].games = 1

(***************************************************************************)
(* C20.  parseRawTournamentData emits the matches in processing order:     *)
(* leagues in input order; inside a league the matches of its groups       *)
(* (groups in input order, matches in input order) before the playoff      *)
(* matches; a skipped draw leaves the order of the others as it is.  At    *)
(* every point of the parse the array holds exactly the decided matches    *)
(* before the current position, in the order of their positions.           *)
(***************************************************************************)
\* Position of a raw match: league, 1 = groups / 2 = playoff, group, match.
GroupPositions ==
    { <<l, 1, g, m>> :
        l \in 1..2, g \in 1..2, m \in 1..(MaxMatches + 1) }
PlayoffPositions ==
    { <<l, 2, 1, m>> : l \in 1..2, m \in 1..(MaxMatches + 1) }
IsPosition(c) ==
    /\ c[1] \in DOMAIN rawData.leagues
    /\ IF c[2] = 1
       THEN /\ c[3] \in DOMAIN rawData.leagues[c[1]].groups
            /\ c[4] \in DOMAIN rawData.leagues[c[1]].groups[c[3]].matches
       ELSE /\ HasPlayoffMatches(rawData.leagues[c[1]])
            /\ c[4] \in DOMAIN rawData.leagues[c[1]].playoff[1].matches
RawAt(c) ==
    IF c[2] = 1 THEN rawData.leagues[c[1]].groups[c[3]].matches[c[4]]
    ELSE rawData.leagues[c[1]].playoff[1].matches[c[4]]
DecidedPositions ==
    { c \in GroupPositions \cup PlayoffPositions :
        IsPosition(c) /\ ~IsDraw(RawAt(c)) }

LexLess(c, d) ==
    \E n \in 1..4 : c[n] < d[n] /\ \A j \in 1..(n - 1) : c[j] = d[j]

ParsePcs == {"parse_league", "parse_group", "parse_match", "parse_playoff"}
CurrentPosition ==
    CASE pc = "parse_league" -> <<leagueIdx, 0, 0, 0>>
      [] pc = "parse_group" -> <<leagueIdx, 1, groupIdx, 0>>
      [] pc = "parse_match" -> <<leagueIdx, 1, groupIdx, matchIdx>>
      [] pc = "parse_playoff" -> <<leagueIdx, 2, 1, matchIdx>>
      [] OTHER -> IF rawTournamentDataStore = <<>> THEN <<0, 0, 0, 0>>
                  ELSE <<Len(rawData.leagues) + 1, 0, 0, 0>>

\* The emitted record is the one of the raw match at position c.
EmittedFrom(rec, c) ==
    LET league == rawData.leagues[c[1]]
        groupName == IF c[2] = 1 THEN league.groups[c[3]].name ELSE PlayoffName
    IN  /\ rec.id = generateMatchId(rawData.tournament, league.name,
                                    groupName, RawAt(c).id)
        /\ rec.league = league.name
        /\ rec.group = groupName
        /\ rec.stage = (IF c[2] = 2 THEN "playoff" ELSE "qualification")
        /\ rec.score = RawAt(c).score
        /\ rec.date = rawData.date

C20_ProcessingOrder ==
    LET done == { c \in DecidedPositions : LexLess(c, CurrentPosition) }
    IN  /\ Len(matches) = Cardinality(done)
        /\ \A c \in done :
              EmittedFrom(
                  matches[Cardinality({ d \in done : LexLess(d, c) }) + 1], c)

\* The positions of the file that hold a draw.
DrawPositions ==
    { c \in GroupPositions \cup PlayoffPositions :
        IsPosition(c) /\ IsDraw(RawAt(c)) }

\* The parse has returned two matches, a playoff match of the first league
\* and then a group match of the second league, from a file that holds a
\* draw between the two.
C20_Witness ==
    /\ pc \notin ParsePcs
    /\ rawTournamentDataStore = <<rawData>>
    /\ Len(matches) = 2
    /\ matches[1].stage = "playoff"
    /\ matches[1].league = League1Name
    /\ matches[2].stage = "qualification"
    /\ matches[2].league = League2Name
    /\ \E c, d \in DecidedPositions, e \in DrawPositions :
          LexLess(c, e) /\ LexLess(e, d)

\* The same for a draw between two decided matches of one group.
C20_WitnessInGroup ==
    /\ pc \notin ParsePcs
    /\ rawTournamentDataStore = <<rawData>>
    /\ Len(matches) = 2
    /\ \E c, d \in DecidedPositions, e \in DrawPositions :
          /\ LexLess(c, e) /\ LexLess(e, d)
          /\ c[1] = d[1] /\ c[2] = 1 /\ d[2] = 1 /\ c[3] = d[3]
          /\ matches[1].score = RawAt(c).score
          /\ matches[2].score = RawAt(d).score
          /\ matches[1].score # matches[2].score


(***************************************************************************)
(* C24.  For every match the Elo engine processes, each of the two winners *)
(* receives a change that is at least 0 and each of the two losers one     *)
(* that is at most 0; the size of a change never exceeds the K-factor the  *)
(* player has at that match, so it is never more than 40; and every        *)
(* rating stays an integer.                                                *)
(***************************************************************************)
WinnersOf(match) == IF match.winner = 1 THEN match.team1 ELSE match.team2

C24_SignAndSizeOfChanges ==
    /\ pc = "elo_apply" =>
          \A p \in DOMAIN ratingChanges :
              LET change == ratingChanges[p]
                  kFactor == getKFactor(GetOr(playerGames, p, 0))
              IN  /\ p \in Range(WinnersOf(matches[i])) => change >= 0
                  /\ p \notin Range(WinnersOf(matches[i])) => change <= 0
                  /\ Abs(change) <= kFactor
                  /\ Abs(change) <= K_FACTOR_CALIBRATION
    /\ \A p \in DOMAIN playerRatings : playerRatings[p] \in Int

\* A calibrated player (K-factor 32) loses points in a match in which a
\* winner gains points.
C24_Witness ==
    /\ pc = "elo_apply"
    /\ Cardinality(DOMAIN ratingChanges) = 4
    /\ \E p \in DOMAIN ratingChanges :
          /\ GetOr(playerGames, p, 0) >= CALIBRATION_GAMES
          /\ ratingChanges[p] < 0
    /\ \E p \in Range(WinnersOf(matches[i])) : ratingChanges[p] > 0


(***************************************************************************)
(* C26.  Conservation in the unfiltered standings of one group: the sum of *)
(* italianPoints over the rows is 6 times the number of the group's        *)
(* matches with two different scores, the sum of wins and the sum of       *)
(* losses are each twice that number, and the sum of pointsDiff is 0.      *)
(***************************************************************************)
ColumnSum(rows, Field(_)) == SumSeq([k \in 1..Len(rows) |-> Field(rows[k])])

NonDrawMatches(ms) == Len(SelectSeq(ms, LAMBDA m : ~IsDraw(m)))

C26_Conservation ==
    (LastCallDone /\ currentGenderFilter = "all") =>
        LET rows == LastStandings
            n == NonDrawMatches(groupMatches)
        IN  /\ ColumnSum(rows, LAMBDA r : r.italianPoints) = 6 * n
            /\ ColumnSum(rows, LAMBDA r : r.wins) = 2 * n
            /\ ColumnSum(rows, LAMBDA r : r.losses) = 2 * n
            /\ ColumnSum(rows, LAMBDA r : r.ballsDiff) = 0

\* Unfiltered standings of a group with a win by 2 and a clear win: 12
\* points shared as 3 + 3 + 0 + 0 and 2 + 2 + 1 + 1.
C26_Witness ==
    /\ LastCallDone
    /\ currentGenderFilter = "all"
    /\ NonDrawMatches(groupMatches) = 2
    /\ ColumnSum(LastStandings, LAMBDA r : r.italianPoints) = 12
    /\ \E k \in DOMAIN LastStandings : LastStandings[k].ballsDiff # 0
    /\ \E m \in Range(groupMatches) : Abs(m.score[1] - m.score[2]) = 2
    /\ \E m \in Range(groupMatches) : Abs(m.score[1] - m.score[2]) > 2


(***************************************************************************)
(* C27.  The gender filter only selects rows.  Whatever the filter, every  *)
(* returned row is equal, total by total, to the row the same player has   *)
(* in the group's standings under 'all', the returned rows stand in the    *)
(* same relative order as under 'all', and under 'male' or 'female' they   *)
(* are the rows of that gender.                                            *)
(***************************************************************************)
NamesOf(rows) == { rows[k].name : k \in DOMAIN rows }

C27_FilterOnlySelects ==
    LastCallDone =>
        LET unfiltered == calculateStandings(groupMatches, "all")
            returned == LastStandings
        IN  /\ returned =
                   SelectSeq(unfiltered, LAMBDA r : r.name \in NamesOf(returned))
            /\ currentGenderFilter # "all" =>
                   NamesOf(returned) =
                       { r.name : r \in { x \in Range(unfiltered) :
                                            x.gender = currentGenderFilter } }

\* A filtered list of two rows that are equal on both sort keys, taken
\* from a longer unfiltered list.
C27_Witness ==
    /\ LastCallDone
    /\ currentGenderFilter # "all"
    /\ Len(LastStandings) = 2
    /\ LastStandings[1].italianPoints = LastStandings[2].italianPoints
    /\ LastStandings[1].ballsDiff = LastStandings[2].ballsDiff
    /\ Len(calculateStandings(groupMatches, "all")) > 2


(***************************************************************************)
(* C28.  parseRawTournamentData gives pairwise distinct ids to all the     *)
(* matches it emits for one tournament, provided the raw match ids are     *)
(* unique within each group and within each playoff and no two groups      *)
(* share the same pair of league name and group name.                      *)
(* It fails: a group named "playoff" shares its ids with the playoff of    *)
(* its league, and two leagues whose names differ only in case or spacing  *)
(* share one slug.                                                         *)
(***************************************************************************)
DistinctIds(ms) ==
    \A x \in DOMAIN ms : \A y \in DOMAIN ms : x # y => ms[x].id # ms[y].id

\* The (league name, group name) pairs of the file, one per group.
RECURSIVE GroupKeysFrom(_, _, _)
GroupKeysFrom(raw, l, g) ==
    IF l > Len(raw.leagues) THEN <<>>
    ELSE IF g > Len(raw.leagues[l].groups) THEN GroupKeysFrom(raw, l + 1, 1)
    ELSE <<<<raw.leagues[l].name, raw.leagues[l].groups[g].name>>>>
             \o GroupKeysFrom(raw, l, g + 1)

UniqueRawIds(raw) ==
    /\ \A l \in DOMAIN raw.leagues :
          /\ \A g \in DOMAIN raw.leagues[l].groups :
                DistinctIds(raw.leagues[l].groups[g].matches)
          /\ HasPlayoffMatches(raw.leagues[l]) =>
                DistinctIds(raw.leagues[l].playoff[1].matches)
    /\ LET keys == GroupKeysFrom(raw, 1, 1)
       IN  \A x \in DOMAIN keys : \A y \in DOMAIN keys :
               x # y => keys[x] # keys[y]

C28_DistinctMatchIds ==
    (rawTournamentDataStore # <<>> /\ UniqueRawIds(rawData)) =>
        DistinctIds(matches)


(***************************************************************************)
(* The import script (importTournament) and the database it fills.         *)
(*                                                                         *)
(* A table is the sequence of its rows in rowid order.  Every table is     *)
(* AUTOINCREMENT: a new row gets the rowid after the one recorded in       *)
(* sqlite_sequence, and an INSERT OR IGNORE that is ignored has used up    *)
(* its rowid all the same.  A column that holds a value or NULL is         *)
(* written <<>> for NULL and <<x>> for x.                                  *)
(*                                                                         *)
(* The script and the server module are two processes on one database      *)
(* file in WAL mode.  better-sqlite3 is synchronous: db.transaction(fn)()  *)
(* runs BEGIN, fn and COMMIT, or ROLLBACK when fn throws, and then         *)
(* rethrows.  The transaction reads from the snapshot taken by its first   *)
(* SELECT; its first write takes the write lock, and fails ("database is   *)
(* locked") when another connection has committed since the snapshot.      *)
(* The server module runs each statement on its own: it reads what is      *)
(* committed, and its INSERT waits for the write lock, up to the busy      *)
(* timeout.  The script imports one file per process, so every import      *)
(* starts with an empty playerCache; one script runs at a time.            *)
(***************************************************************************)
Season7 == <<"VII", " ", "N","A","G","O","R","N","A","Ya">>
Season8 == <<"VIII", " ", "N","A","G","O","R","N","A","Ya">>

\* The files given to the script: the raw tournament with every group
\* staged as a qualification group, or with the stage of the second group
\* of the first league missing; its group matches with or without a
\* referee (<<>> or <<name>>) and a court (<<>> or <<number>>).  The last
\* file gives its second league a playoff object with matches: null.
ImportFile(a, stageMissing, referee, court) ==
    LET raw == RawTournament(a, "plain")
        match(m) == [id |-> m.id, court |-> court, referee |-> referee,
                     team1 |-> m.team1, team2 |-> m.team2, score |-> m.score]
        group(g, stage) ==
            [name |-> g.name, stage |-> stage,
             matches |-> [k \in 1..Len(g.matches) |-> match(g.matches[k])]]
    IN  [raw EXCEPT
            !.leagues[1].groups =
                << group(@[1], "qualification"),
                   group(@[2], IF stageMissing THEN NULL ELSE "qualification") >>,
            !.leagues[2].groups = << group(@[1], "qualification") >>]

ImportFiles ==
    { ImportFile(<<>>, FALSE, <<>>, <<1>>),
      ImportFile(<< <<"1A", "draw">> >>, FALSE, <<>>, <<1>>),
      ImportFile(<< <<"1A", "win2">>, <<"1P", "win1">> >>, FALSE, <<>>, <<1>>),
      ImportFile(<< <<"1A", "win1">>, <<"2A", "win2">> >>, FALSE, <<>>, <<1>>),
      ImportFile(<< <<"1A", "win1">>, <<"1A", "win2">> >>, FALSE, <<>>, <<1>>),
      ImportFile(<< <<"1A", "win1">>, <<"1B", "win2">> >>, TRUE, <<>>, <<1>>),
      ImportFile(<< <<"1A", "win1">> >>, FALSE, <<"E">>, <<0>>),
      ImportFile(<< <<"1A", "win1">> >>, FALSE, <<"A">>, <<>>),
      [ImportFile(<< <<"2A", "win2">> >>, FALSE, <<>>, <<1>>)
          EXCEPT !.leagues[2].playoff = <<[matches |-> NULL]>>] }

\* A run of the script: the date in the file at its jsonPath, and its
\* other arguments: season, stage number (<<>> for the final), format and
\* pairing.
ImportCall(seasonName, stageNumber, format, date) ==
    [seasonName |-> seasonName, seasonYear |-> 2025,
     stageNumber |-> stageNumber, format |-> format, pairing |-> "random",
     date |-> date]

ImportCalls ==
    { ImportCall(Season7, <<1>>, "mixed", Date2),
      ImportCall(Season7, <<1>>, "mixed", Date1),
      ImportCall(Season7, <<>>, "mixed", Date1),
      ImportCall(Season8, <<11>>, "mixed", Date1),
      ImportCall(Season7, <<2>>, "mix", Date1) }

\* The rowid an INSERT into the table gets.
NextRowid(d, table) == d.sqlite_sequence[table] + 1

\* INSERT INTO table: the row, with the next rowid as its id.
InsertInto(d, table, row) ==
    [d EXCEPT ![table] = Append(@, row),
              !.sqlite_sequence[table] = @ + 1]

\* SELECT id FROM players WHERE name = ? : the rows with that name.
getPlayer(d, name) == SelectSeq(d.players, LAMBDA r : r.name = name)

\* Variant of insertPlayer: a plain INSERT into a table without the
\* UNIQUE constraint.
insertPlayerAlways(d, name, gender) ==
    InsertInto(d, "players",
               [id |-> NextRowid(d, "players"), name |-> name, gender |-> gender])

\* INSERT OR IGNORE INTO players (name, gender): a row whose name is
\* already there violates UNIQUE(name) and is skipped; the rowid it would
\* have got is used up.
insertPlayer(d, name, gender) ==
    IF getPlayer(d, name) # <<>>
    THEN [d EXCEPT !.sqlite_sequence["players"] = @ + 1]
    ELSE InsertInto(d, "players",
                    [id |-> NextRowid(d, "players"), name |-> name,
                     gender |-> gender])

\* One getOrCreatePlayer call: the run (event) it belongs to, its argument,
\* the id it returned (0 when it threw) and the path that answered it:
\* "cache", "row", "insert", or the exception "unique" or "locked".
CallRecord(run, name, id, via) ==
    [run |-> run, name |-> name, id |-> id, via |-> via]

\* Import script: getOrCreatePlayer(name), on the database, the cache and
\* the log of calls; ret is the returned id.
getOrCreatePlayer(st, name) ==
    IF name \in DOMAIN st.cache
    THEN [st EXCEPT !.ret = st.cache[name],
                    !.calls = @ \cup {CallRecord(st.run, name, st.cache[name], "cache")}]
    ELSE LET after == insertPlayer(st.db, name, getGenderImport(FullName[name]))
             player == getPlayer(after, name)[1]
             via == IF getPlayer(st.db, name) # <<>> THEN "row" ELSE "insert"
         IN  [db |-> after,
              cache |-> st.cache @@ (name :> player.id),
              calls |-> st.calls \cup {CallRecord(st.run, name, player.id, via)},
              ret |-> player.id,
              run |-> st.run]

\* Server module, getOrCreatePlayer: its INSERT INTO players (name, gender)
\* with gender = null.  ok is FALSE when UNIQUE(name) rejects the row: the
\* statement throws and changes nothing.
insertPlayerServer(d, name) ==
    IF getPlayer(d, name) # <<>>
    THEN [db |-> d, ok |-> FALSE, lastInsertRowid |-> 0]
    ELSE [db |-> InsertInto(d, "players",
                            [id |-> NextRowid(d, "players"), name |-> name,
                             gender |-> NULL]),
          ok |-> TRUE,
          lastInsertRowid |-> NextRowid(d, "players")]

\* x || null for an optional number: nothing and 0 give NULL.
OrNull(x) == IF x = <<>> \/ x[1] = 0 THEN <<>> ELSE x

\* The getOrCreatePlayer calls of one match (its four players, then its
\* referee if the call site asks for one), then INSERT INTO matches.
InsertMatch(st, groupId, match, court, round, referee) ==
    LET s1 == getOrCreatePlayer(st, match.team1[1])
        s2 == getOrCreatePlayer(s1, match.team1[2])
        s3 == getOrCreatePlayer(s2, match.team2[1])
        s4 == getOrCreatePlayer(s3, match.team2[2])
        s5 == IF referee # <<>> THEN getOrCreatePlayer(s4, referee[1]) ELSE s4
        row == [id |-> NextRowid(s5.db, "matches"),
                group_id |-> groupId,
                match_number |-> match.id,
                court |-> court,
                round |-> round,
                team1_player1_id |-> s1.ret,
                team1_player2_id |-> s2.ret,
                score1 |-> match.score[1],
                score2 |-> match.score[2],
                team2_player1_id |-> s3.ret,
                team2_player2_id |-> s4.ret,
                referee_id |-> IF referee # <<>> THEN <<s5.ret>> ELSE <<>>]
    IN  [s5 EXCEPT !.db = InsertInto(s5.db, "matches", row)]

\* Variant of Rollback: the player rows written since BEGIN stay.
RollbackKeepsPlayers(before, current) ==
    [before EXCEPT !.players = current.players]

\* ROLLBACK: the connection sees the committed database again.
Rollback(before, current) == before

\* `${stageNumber} etap` or 'Final'.
StageName(stageNumber) ==
    IF stageNumber # <<>> /\ stageNumber[1] # 0
    THEN NumberToString(stageNumber[1]) \o <<" ", "e", "t", "a", "p">>
    ELSE <<"F", "i", "n", "a", "l">>

\* The state the player functions of the script work on.
ImportState ==
    [db |-> db, cache |-> playerCache, calls |-> playerCalls, ret |-> 0,
     run |-> imp.run]

\* What a connection other than the script's reads: the committed rows.
Committed == IF imp.snapshot THEN dbBefore ELSE db

\* The script's first write finds that another connection has committed
\* since its snapshot: SQLITE_BUSY_SNAPSHOT, "database is locked".
SnapshotStale == imp.snapshot /\ ~imp.writing /\ db # dbBefore

\* data = JSON.parse(fs.readFileSync(jsonPath)): the tournament of the
\* behaviour under the date of the run's file.
ImportData == [rawData EXCEPT !.date = importArgs[1].date]

serverFrame == <<rawData, matches, groupMatches, eloLocals, eloResults, stLocals,
                 standingsResults, currentGenderFilter, rawTournamentDataStore,
                 parseLocals, winLossResults, fnArgs, fnResults, ratingPageVars>>


(***************************************************************************)
(* importTournament, statement by statement.                               *)
(***************************************************************************)
\* A new process runs the script: importAll() begins its transaction
\* (BEGIN reads nothing and locks nothing).
StartImport ==
    /\ pc = "idle"
    /\ events < MaxEvents
    /\ events' = events + 1
    /\ \E call \in ImportCalls : importArgs' = <<call>>
    /\ playerCache' = EmptyMap
    /\ imp' = [ImpIdle EXCEPT !.run = events + 1]
    /\ pc' = "import_season"
    /\ UNCHANGED <<db, dbBefore, importOutcomes, playerCalls, seasonRating,
                   srv, serverFrame>>

\* A statement throws: the transaction is rolled back and the exception
\* ends the process.
Throw ==
    /\ db' = Rollback(dbBefore, db)
    /\ importOutcomes' = importOutcomes @@ (imp.run :> "failed")
    /\ imp' = [imp EXCEPT !.snapshot = FALSE, !.writing = FALSE]
    /\ pc' = "idle"
    /\ UNCHANGED <<dbBefore, playerCache, importArgs, playerCalls,
                   seasonRating, srv, events, serverFrame>>

\* SELECT id FROM seasons WHERE name = ? AND year = ? : the first statement
\* of the transaction, which takes its snapshot.
ImportSeason ==
    /\ pc = "import_season"
    /\ LET a == importArgs[1]
           season == SelectSeq(db.seasons,
                        LAMBDA r : r.name = a.seasonName /\ r.year = a.seasonYear)
       IN  IF season # <<>>
           THEN /\ imp' = [imp EXCEPT !.snapshot = TRUE, !.season = season[1].id]
                /\ pc' = "import_tournament"
           ELSE /\ imp' = [imp EXCEPT !.snapshot = TRUE]
                /\ pc' = "import_season_insert"
    /\ dbBefore' = db
    /\ UNCHANGED <<db, playerCache, importArgs, importOutcomes, playerCalls,
                   seasonRating, srv, events, serverFrame>>

\* if (!season): INSERT INTO seasons, the first write of the transaction.
ImportSeasonInsert ==
    /\ pc = "import_season_insert"
    /\ LET a == importArgs[1]
           lastInsertRowid == NextRowid(db, "seasons")
       IN  IF SnapshotStale
           THEN Throw
           ELSE /\ db' = InsertInto(db, "seasons",
                                    [id |-> lastInsertRowid,
                                     name |-> a.seasonName,
                                     year |-> a.seasonYear])
                /\ imp' = [imp EXCEPT !.writing = TRUE,
                                      !.season = lastInsertRowid]
                /\ pc' = "import_tournament"
                /\ UNCHANGED <<dbBefore, playerCache, importArgs,
                               importOutcomes, playerCalls, seasonRating,
                               srv, events, serverFrame>>

\* INSERT INTO tournaments, the first write when the season was there;
\* format and pairing are CHECKed.
ImportTournament ==
    /\ pc = "import_tournament"
    /\ LET a == importArgs[1]
           lastInsertRowid == NextRowid(db, "tournaments")
       IN  IF \/ SnapshotStale
              \/ a.format \notin {"mixed", "same_sex"}
              \/ a.pairing \notin {"random", "fixed"}
           THEN Throw
           ELSE /\ db' = InsertInto(db, "tournaments",
                                    [id |-> lastInsertRowid,
                                     season_id |-> imp.season,
                                     stage_number |-> a.stageNumber,
                                     name |-> StageName(a.stageNumber),
                                     date |-> ImportData.date,
                                     format |-> a.format,
                                     pairing |-> a.pairing])
                /\ imp' = [imp EXCEPT !.writing = TRUE,
                                      !.tournamentId = lastInsertRowid,
                                      !.i = 1]
                /\ pc' = "import_league"
                /\ UNCHANGED <<dbBefore, playerCache, importArgs,
                               importOutcomes, playerCalls, seasonRating,
                               srv, events, serverFrame>>

\* for (i ...) over data.leagues: INSERT INTO leagues.
ImportLeague ==
    /\ pc = "import_league"
    /\ imp.i <= Len(rawData.leagues)
    /\ LET leagueData == rawData.leagues[imp.i]
           lastInsertRowid == NextRowid(db, "leagues")
       IN  /\ db' = InsertInto(db, "leagues",
                               [id |-> lastInsertRowid,
                                tournament_id |-> imp.tournamentId,
                                name |-> leagueData.name,
                                sort_order |-> imp.i - 1])
           /\ imp' = [imp EXCEPT !.leagueId = lastInsertRowid, !.g = 1]
    /\ pc' = "import_group"
    /\ UNCHANGED <<dbBefore, playerCache, importArgs, importOutcomes,
                   playerCalls, seasonRating, srv, events, serverFrame>>

\* The loop over the leagues is over: COMMIT.  What the script wrote is
\* now what every connection reads.
ImportCommit ==
    /\ pc = "import_league"
    /\ imp.i > Len(rawData.leagues)
    /\ importOutcomes' = importOutcomes @@ (imp.run :> "done")
    /\ imp' = [imp EXCEPT !.snapshot = FALSE, !.writing = FALSE]
    /\ pc' = "idle"
    /\ UNCHANGED <<db, dbBefore, playerCache, importArgs, playerCalls,
                   seasonRating, srv, events, serverFrame>>

\* for (groupData of leagueData.groups): INSERT INTO groups; stage is
\* NOT NULL and CHECKed.
ImportGroup ==
    /\ pc = "import_group"
    /\ imp.g <= Len(rawData.leagues[imp.i].groups)
    /\ LET groupData == rawData.leagues[imp.i].groups[imp.g]
           lastInsertRowid == NextRowid(db, "groups")
       IN  IF groupData.stage \notin {"qualification", "playoff"}
           THEN Throw
           ELSE /\ db' = InsertInto(db, "groups",
                                    [id |-> lastInsertRowid,
                                     league_id |-> imp.leagueId,
                                     name |-> groupData.name,
                                     stage |-> groupData.stage])
                /\ imp' = [imp EXCEPT !.groupId = lastInsertRowid, !.m = 1]
                /\ pc' = "import_match"
                /\ UNCHANGED <<dbBefore, playerCache, importArgs,
                               importOutcomes, playerCalls, seasonRating,
                               srv, events, serverFrame>>

ImportGroupsDone ==
    /\ pc = "import_group"
    /\ imp.g > Len(rawData.leagues[imp.i].groups)
    /\ pc' = "import_playoff"
    /\ UNCHANGED <<serverVars, events, serverFrame>>

\* for (match of groupData.matches): the players, the referee if the match
\* names one, then INSERT INTO matches with match.court || null.
ImportMatch ==
    /\ pc = "import_match"
    /\ imp.m <= Len(rawData.leagues[imp.i].groups[imp.g].matches)
    /\ LET match == rawData.leagues[imp.i].groups[imp.g].matches[imp.m]
           after == InsertMatch(ImportState, imp.groupId, match,
                                OrNull(match.court), NULL, match.referee)
       IN  /\ db' = after.db
           /\ playerCache' = after.cache
           /\ playerCalls' = after.calls
    /\ imp' = [imp EXCEPT !.m = @ + 1]
    /\ UNCHANGED <<pc, dbBefore, importArgs, importOutcomes, seasonRating,
                   srv, events, serverFrame>>

ImportMatchesDone ==
    /\ pc = "import_match"
    /\ imp.m > Len(rawData.leagues[imp.i].groups[imp.g].matches)
    /\ imp' = [imp EXCEPT !.g = @ + 1]
    /\ pc' = "import_group"
    /\ UNCHANGED <<db, dbBefore, playerCache, importArgs, importOutcomes,
                   playerCalls, seasonRating, srv, events, serverFrame>>

\* if (leagueData.playoff): the playoff is stored as one more group.  The
\* for statement that follows the INSERT throws a TypeError when the
\* playoff object has no matches to iterate.
ImportPlayoff ==
    /\ pc = "import_playoff"
    /\ LET leagueData == rawData.leagues[imp.i]
           lastInsertRowid == NextRowid(db, "groups")
       IN  IF leagueData.playoff = <<>>
           THEN /\ imp' = [imp EXCEPT !.i = @ + 1]
                /\ pc' = "import_league"
                /\ UNCHANGED <<db, dbBefore, playerCache, importArgs,
                               importOutcomes, playerCalls, seasonRating,
                               srv, events, serverFrame>>
           ELSE IF ~HasPlayoffMatches(leagueData)
           THEN Throw
           ELSE /\ db' = InsertInto(db, "groups",
                                    [id |-> lastInsertRowid,
                                     league_id |-> imp.leagueId,
                                     name |-> <<"P","l","e","j","o","f","f">>,
                                     stage |-> "playoff"])
                /\ imp' = [imp EXCEPT !.groupId = lastInsertRowid, !.m = 1]
                /\ pc' = "import_playoff_match"
                /\ UNCHANGED <<dbBefore, playerCache, importArgs,
                               importOutcomes, playerCalls, seasonRating,
                               srv, events, serverFrame>>

\* for (match of leagueData.playoff.matches): the four players, then
\* INSERT INTO matches with the round, without court or referee.
ImportPlayoffMatch ==
    /\ pc = "import_playoff_match"
    /\ imp.m <= Len(rawData.leagues[imp.i].playoff[1].matches)
    /\ LET match == rawData.leagues[imp.i].playoff[1].matches[imp.m]
           after == InsertMatch(ImportState, imp.groupId, match,
                                <<>>, match.round, <<>>)
       IN  /\ db' = after.db
           /\ playerCache' = after.cache
           /\ playerCalls' = after.calls
    /\ imp' = [imp EXCEPT !.m = @ + 1]
    /\ UNCHANGED <<pc, dbBefore, importArgs, importOutcomes, seasonRating,
                   srv, events, serverFrame>>

ImportPlayoffDone ==
    /\ pc = "import_playoff_match"
    /\ imp.m > Len(rawData.leagues[imp.i].playoff[1].matches)
    /\ imp' = [imp EXCEPT !.i = @ + 1]
    /\ pc' = "import_league"
    /\ UNCHANGED <<db, dbBefore, playerCache, importArgs, importOutcomes,
                   playerCalls, seasonRating, srv, events, serverFrame>>


(***************************************************************************)
(* getOrCreatePlayer of the server module: SELECT, then INSERT, each a     *)
(* statement of its own.                                                   *)
(***************************************************************************)
\* The names the server module is asked for.
ServerNames == {"C", "G"}

\* What a statement of the server module writes becomes the committed
\* database; a script that has not read yet will read it too.
CommitServer(d) ==
    IF imp.snapshot
    THEN dbBefore' = d /\ UNCHANGED db
    ELSE db' = d /\ UNCHANGED dbBefore

\* A call of getOrCreatePlayer(name): SELECT id FROM players WHERE name = ?
\* and, if there is a row, return existing.id.
CallGetOrCreatePlayer ==
    /\ srv.op = "idle"
    /\ events < MaxEvents
    /\ events' = events + 1
    /\ \E name \in ServerNames :
          LET existing == getPlayer(Committed, name)
          IN  IF existing # <<>>
              THEN /\ playerCalls' = playerCalls \cup
                          {CallRecord(events + 1, name, existing[1].id, "row")}
                   /\ UNCHANGED srv
              ELSE /\ srv' = [SrvIdle EXCEPT !.op = "insert_player",
                                              !.run = events + 1,
                                              !.name = name]
                   /\ UNCHANGED playerCalls
    /\ seasonRating' = <<>>
    /\ UNCHANGED <<pc, db, dbBefore, playerCache, importArgs, imp,
                   importOutcomes, serverFrame>>

\* The INSERT of the call, once no transaction holds the write lock, and
\* return result.lastInsertRowid; it throws if the name has been
\* committed since the SELECT.
ServerInsertPlayer ==
    /\ srv.op = "insert_player"
    /\ ~imp.writing
    /\ LET result == insertPlayerServer(Committed, srv.name)
       IN  IF result.ok
           THEN /\ CommitServer(result.db)
                /\ playerCalls' = playerCalls \cup
                       {CallRecord(srv.run, srv.name, result.lastInsertRowid,
                                   "insert")}
           ELSE /\ playerCalls' = playerCalls \cup
                       {CallRecord(srv.run, srv.name, 0, "unique")}
                /\ UNCHANGED <<db, dbBefore>>
    /\ srv' = SrvIdle
    /\ UNCHANGED <<pc, playerCache, importArgs, imp, importOutcomes,
                   seasonRating, events, serverFrame>>

\* The INSERT of the call while the script holds the write lock for longer
\* than the busy timeout: it throws "database is locked".
ServerInsertLocked ==
    /\ srv.op = "insert_player"
    /\ imp.writing
    /\ playerCalls' = playerCalls \cup
           {CallRecord(srv.run, srv.name, 0, "locked")}
    /\ srv' = SrvIdle
    /\ UNCHANGED <<pc, db, dbBefore, playerCache, importArgs, imp,
                   importOutcomes, seasonRating, events, serverFrame>>


(***************************************************************************)
(* getSeasonRating of the server module.                                   *)
(***************************************************************************)
\* The property name of match.stage_number || 'final'.
StageKey(stage_number) ==
    IF stage_number # <<>> /\ stage_number[1] # 0
    THEN NumberToString(stage_number[1])
    ELSE <<"f", "i", "n", "a", "l">>

\* JOIN table x ON ... = x.id : the row of the table with that id (every
\* id stored in a row is the id of a stored row).
RowById(rows, id) == SelectSeq(rows, LAMBDA r : r.id = id)[1]

\* The rows of the big SELECT, before ORDER BY: every match joined with its
\* group, league, tournament and four players, for the given season.
JoinedMatch(d, m) ==
    LET g == RowById(d.groups, m.group_id)
        l == RowById(d.leagues, g.league_id)
        t == RowById(d.tournaments, l.tournament_id)
        p1 == RowById(d.players, m.team1_player1_id)
        p2 == RowById(d.players, m.team1_player2_id)
        p3 == RowById(d.players, m.team2_player1_id)
        p4 == RowById(d.players, m.team2_player2_id)
    IN  [id |-> m.id, match_number |-> m.match_number,
         score1 |-> m.score1, score2 |-> m.score2,
         season_id |-> t.season_id,
         tournament_id |-> t.id, stage_number |-> t.stage_number,
         group_stage |-> g.stage,
         p1_id |-> p1.id, p1_name |-> p1.name, p1_gender |-> p1.gender,
         p2_id |-> p2.id, p2_name |-> p2.name, p2_gender |-> p2.gender,
         p3_id |-> p3.id, p3_name |-> p3.name, p3_gender |-> p3.gender,
         p4_id |-> p4.id, p4_name |-> p4.name, p4_gender |-> p4.gender]

SeasonMatches(d, seasonId) ==
    SelectSeq([k \in 1..Len(d.matches) |-> JoinedMatch(d, d.matches[k])],
              LAMBDA r : r.season_id = seasonId)

\* ORDER BY t.stage_number, m.match_number: NULL sorts before every
\* number.
StageBefore(x, y) ==
    IF x = <<>> THEN y # <<>> ELSE y # <<>> /\ x[1] < y[1]

RowBefore(x, y) ==
    \/ StageBefore(x.stage_number, y.stage_number)
    \/ /\ x.stage_number = y.stage_number
       /\ x.match_number < y.match_number

RECURSIVE InsertRow(_, _)
InsertRow(sorted, x) ==
    IF sorted = <<>> THEN <<x>>
    ELSE IF RowBefore(x, Head(sorted)) THEN <<x>> \o sorted
    ELSE <<Head(sorted)>> \o InsertRow(Tail(sorted), x)

RECURSIVE OrderRows(_)
OrderRows(rows) ==
    IF rows = <<>> THEN <<>>
    ELSE InsertRow(OrderRows(SubSeq(rows, 1, Len(rows) - 1)), rows[Len(rows)])

Reverse(s) == [k \in 1..Len(s) |-> s[Len(s) + 1 - k]]

\* SQL leaves the order of rows with equal sort keys open: they come in
\* rowid order, ascending or descending.
AllMatchesOrders(d, seasonId) ==
    { OrderRows(SeasonMatches(d, seasonId)),
      OrderRows(Reverse(SeasonMatches(d, seasonId))) }

\* The entry pushed to p.stages[stageKey].matches.
StageEntry(partner, vs, score, won, diff, pts, stage) ==
    [partner |-> partner, vs |-> vs, score |-> score, won |-> won,
     diff |-> diff, points |-> pts, stage |-> stage]

NewSeasonPlayer(player) ==
    [id |-> player.id, name |-> player.name, gender |-> player.gender,
     stages |-> EmptyMap, total |-> 0]

\* Variant of AccumulateSeasonPlayer: the total counts won matches only.
AccumulateSeasonPlayerWinsOnly(acc, player, stageKey, entry) ==
    LET known == player.id \in DOMAIN acc.map
        p == IF known THEN acc.map[player.id] ELSE NewSeasonPlayer(player)
        bucket == IF stageKey \in DOMAIN p.stages THEN p.stages[stageKey]
                  ELSE [points |-> 0, matches |-> <<>>]
        newBucket == [points |-> bucket.points + entry.points,
                      matches |-> Append(bucket.matches, entry)]
        q == [p EXCEPT
                 !.stages = (stageKey :> newBucket) @@ @,
                 !.total = IF entry.won THEN @ + entry.points ELSE @]
    IN  [map |-> (player.id :> q) @@ acc.map,
         order |-> IF known THEN acc.order ELSE Append(acc.order, player.id)]

\* The body of the forEach over the two players of a team.
AccumulateSeasonPlayer(acc, player, stageKey, entry) ==
    LET known == player.id \in DOMAIN acc.map
        p == IF known THEN acc.map[player.id] ELSE NewSeasonPlayer(player)
        bucket == IF stageKey \in DOMAIN p.stages THEN p.stages[stageKey]
                  ELSE [points |-> 0, matches |-> <<>>]
        newBucket == [points |-> bucket.points + entry.points,
                      matches |-> Append(bucket.matches, entry)]
        q == [p EXCEPT
                 !.stages = (stageKey :> newBucket) @@ @,
                 !.total = @ + entry.points]
    IN  [map |-> (player.id :> q) @@ acc.map,
         order |-> IF known THEN acc.order ELSE Append(acc.order, player.id)]

\* The body of the loop over allMatches: team 1, then team 2.
AccumulateSeasonMatch(acc, match) ==
    LET stageKey == StageKey(match.stage_number)
        team1Won == match.score1 > match.score2
        diff == Abs(match.score1 - match.score2)
        pts1 == getItalianPointsServer(match.score1, match.score2)
        pts2 == getItalianPointsServer(match.score2, match.score1)
        P1 == [id |-> match.p1_id, name |-> match.p1_name, gender |-> match.p1_gender]
        P2 == [id |-> match.p2_id, name |-> match.p2_name, gender |-> match.p2_gender]
        P3 == [id |-> match.p3_id, name |-> match.p3_name, gender |-> match.p3_gender]
        P4 == [id |-> match.p4_id, name |-> match.p4_name, gender |-> match.p4_gender]
        e1(partner) == StageEntry(partner, <<match.p3_name, match.p4_name>>,
                                  <<match.score1, match.score2>>, team1Won,
                                  diff, pts1, match.group_stage)
        e2(partner) == StageEntry(partner, <<match.p1_name, match.p2_name>>,
                                  <<match.score2, match.score1>>, ~team1Won,
                                  diff, pts2, match.group_stage)
        a1 == AccumulateSeasonPlayer(acc, P1, stageKey, e1(match.p2_name))
        a2 == AccumulateSeasonPlayer(a1, P2, stageKey,
                  e1(IF P2.id = match.p1_id THEN match.p2_name ELSE match.p1_name))
        a3 == AccumulateSeasonPlayer(a2, P3, stageKey, e2(match.p4_name))
        a4 == AccumulateSeasonPlayer(a3, P4, stageKey,
                  e2(IF P4.id = match.p3_id THEN match.p4_name ELSE match.p3_name))
    IN  a4

RECURSIVE AccumulateSeason(_, _)
AccumulateSeason(acc, rows) ==
    IF rows = <<>> THEN acc
    ELSE AccumulateSeason(AccumulateSeasonMatch(acc, Head(rows)), Tail(rows))

\* .sort((a, b) => b.total - a.total), a stable sort.
RECURSIVE InsertByTotal(_, _)
InsertByTotal(sorted, x) ==
    IF sorted = <<>> THEN <<x>>
    ELSE IF x.total - Head(sorted).total > 0 THEN <<x>> \o sorted
    ELSE <<Head(sorted)>> \o InsertByTotal(Tail(sorted), x)

RECURSIVE SortByTotal(_)
SortByTotal(arr) ==
    IF arr = <<>> THEN <<>>
    ELSE InsertByTotal(SortByTotal(SubSeq(arr, 1, Len(arr) - 1)), arr[Len(arr)])

\* Two dates as SQLite compares their texts: byte by byte, which for
\* 'YYYY-MM-DD' is year, then month, then day.
DateBefore(x, y) ==
    \/ x[1] < y[1]
    \/ x[1] = y[1] /\ x[2] < y[2]
    \/ x[1] = y[1] /\ x[2] = y[2] /\ x[3] < y[3]

\* SELECT * FROM tournaments WHERE season_id = ? ORDER BY stage_number, date
\* : by stage number, NULL first, then by date; rows equal in both come in
\* rowid order, the order of the scan.
TournamentBefore(x, y) ==
    \/ StageBefore(x.stage_number, y.stage_number)
    \/ /\ x.stage_number = y.stage_number
       /\ DateBefore(x.date, y.date)

RECURSIVE InsertTournament(_, _)
InsertTournament(sorted, x) ==
    IF sorted = <<>> THEN <<x>>
    ELSE IF TournamentBefore(x, Head(sorted)) THEN <<x>> \o sorted
    ELSE <<Head(sorted)>> \o InsertTournament(Tail(sorted), x)

RECURSIVE OrderTournaments(_)
OrderTournaments(rows) ==
    IF rows = <<>> THEN <<>>
    ELSE InsertTournament(OrderTournaments(SubSeq(rows, 1, Len(rows) - 1)),
                          rows[Len(rows)])

\* The eleven stage columns: stages 1 to 10, then the final.
SeasonStages(tournaments) ==
    LET find(stage_number) ==
            SelectSeq(tournaments, LAMBDA t : t.stage_number = stage_number)
        column(stage_number) ==
            [stageNumber |-> stage_number,
             name |-> StageName(stage_number),
             tournamentId |-> IF find(stage_number) = <<>> THEN <<>>
                              ELSE <<find(stage_number)[1].id>>,
             date |-> IF find(stage_number) = <<>> THEN <<>>
                      ELSE <<find(stage_number)[1].date>>]
    IN  [k \in 1..10 |-> column(<<k>>)] \o <<column(<<>>)>>

\* getSeasonRating(seasonId) from what its three SELECTs returned: the
\* season row, the season's tournaments and the rows of allMatches.
getSeasonRating(season, tournaments, allMatches) ==
    LET acc == AccumulateSeason([map |-> EmptyMap, order |-> <<>>], allMatches)
        values == [k \in 1..Len(acc.order) |-> acc.map[acc.order[k]]]
    IN  [season |-> season,
         stages |-> SeasonStages(tournaments),
         players |-> SortByTotal(values)]

\* GET of a season's rating: SELECT * FROM seasons WHERE id = ? and, if
\* there is no such season, return null (<<>>).  The value a call returns
\* is kept, with the rows it was computed from, until the next request.
CallGetSeasonRating ==
    /\ srv.op = "idle"
    /\ \E seasonId \in 1..(Len(Committed.seasons) + 1) :
          LET season == SelectSeq(Committed.seasons, LAMBDA r : r.id = seasonId)
          IN  IF season = <<>>
              THEN /\ seasonRating' = <<[seasonId |-> seasonId,
                                         allMatches |-> <<>>,
                                         value |-> <<>>]>>
                   /\ UNCHANGED srv
              ELSE /\ seasonRating' = <<>>
                   /\ srv' = [SrvIdle EXCEPT !.op = "rating_tournaments",
                                              !.seasonId = seasonId,
                                              !.season = season]
    /\ UNCHANGED <<pc, db, dbBefore, playerCache, importArgs, imp,
                   importOutcomes, playerCalls, events, serverFrame>>

\* SELECT * FROM tournaments WHERE season_id = ? ORDER BY stage_number, date
RatingSelectTournaments ==
    /\ srv.op = "rating_tournaments"
    /\ srv' = [srv EXCEPT
                  !.op = "rating_matches",
                  !.tournaments =
                      OrderTournaments(
                          SelectSeq(Committed.tournaments,
                                    LAMBDA t : t.season_id = srv.seasonId))]
    /\ UNCHANGED <<pc, db, dbBefore, playerCache, importArgs, imp,
                   importOutcomes, playerCalls, seasonRating, events,
                   serverFrame>>

\* The SELECT of allMatches, the loop over its rows, the sort and the
\* return.
RatingSelectMatches ==
    /\ srv.op = "rating_matches"
    /\ \E allMatches \in AllMatchesOrders(Committed, srv.seasonId) :
          seasonRating' =
              <<[seasonId |-> srv.seasonId,
                 allMatches |-> allMatches,
                 value |-> <<getSeasonRating(srv.season[1], srv.tournaments,
                                             allMatches)>>]>>
    /\ srv' = SrvIdle
    /\ UNCHANGED <<pc, db, dbBefore, playerCache, importArgs, imp,
                   importOutcomes, playerCalls, events, serverFrame>>

InitServer ==
    /\ ServerIdle
    /\ RatingPageIdle
    /\ rawData \in ImportFiles
    /\ groupMatches = <<>>
    /\ matches = <<>>
    /\ rawTournamentDataStore = <<>>
    /\ leagueIdx = 1
    /\ groupIdx = 1
    /\ matchIdx = 1
    /\ winLossResults = <<>>
    /\ fnArgs = NULL
    /\ fnResults = EmptyMap
    /\ pc = "idle"
    /\ events = 0
    /\ i = 1
    /\ playerRatings = EmptyMap
    /\ playerGames = EmptyMap
    /\ playerHistory = EmptyMap
    /\ playerOrder = <<>>
    /\ ratingChanges = EmptyMap
    /\ processedMatches = <<>>
    /\ players = <<>>
    /\ eloResults = <<>>
    /\ stI = 1
    /\ stPlayers = EmptyMap
    /\ stOrder = <<>>
    /\ standingsResults = <<>>
    /\ currentGenderFilter = "all"

NextServer ==
    \/ StartImport
    \/ ImportSeason
    \/ ImportSeasonInsert
    \/ ImportTournament
    \/ ImportLeague
    \/ ImportCommit
    \/ ImportGroup
    \/ ImportGroupsDone
    \/ ImportMatch
    \/ ImportMatchesDone
    \/ ImportPlayoff
    \/ ImportPlayoffMatch
    \/ ImportPlayoffDone
    \/ CallGetOrCreatePlayer
    \/ ServerInsertPlayer
    \/ ServerInsertLocked
    \/ CallGetSeasonRating
    \/ RatingSelectTournaments
    \/ RatingSelectMatches

SpecServer == InitServer /\ [][NextServer]_vars


(***************************************************************************)
(* Vocabulary of the import properties.                                    *)
(***************************************************************************)
IsPrefix(s, t) == Len(s) <= Len(t) /\ SubSeq(t, 1, Len(s)) = s

\* What the file holds: its groups (a playoff is stored as a group), its
\* matches and the names in them, referees included.
FileGroupCount(raw) ==
    SumSeq([l \in 1..Len(raw.leagues) |->
               Len(raw.leagues[l].groups)
                   + (IF raw.leagues[l].playoff = <<>> THEN 0 ELSE 1)])

LeagueMatches(league) ==
    LET RECURSIVE Concat(_, _)
        Concat(groups, g) ==
            IF g > Len(groups) THEN <<>>
            ELSE groups[g].matches \o Concat(groups, g + 1)
    IN  Concat(league.groups, 1)
            \o (IF HasPlayoffMatches(league) THEN league.playoff[1].matches
                ELSE <<>>)

FileMatches(raw) ==
    LET RECURSIVE Concat(_)
        Concat(l) ==
            IF l > Len(raw.leagues) THEN <<>>
            ELSE LeagueMatches(raw.leagues[l]) \o Concat(l + 1)
    IN  Concat(1)

\* The referee of a match of the file: a group match may name one.
RefereeOf(match) ==
    IF "referee" \in DOMAIN match THEN match.referee ELSE <<>>

FileNames(raw) ==
    UNION { Range(Participants(m)) \cup Range(RefereeOf(m)) :
              m \in Range(FileMatches(raw)) }

\* The step ends the running import, by COMMIT or by an exception.
ImportEnds == pc # "idle" /\ pc' = "idle"

\* Every row of the file is in the database d, after the rows of before.
ImportedAll(d, before, args, raw) ==
    /\ \E k \in DOMAIN d.seasons :
          /\ d.seasons[k].name = args.seasonName
          /\ d.seasons[k].year = args.seasonYear
          /\ d.tournaments[Len(d.tournaments)].season_id = d.seasons[k].id
    /\ Len(d.seasons) \in {Len(before.seasons), Len(before.seasons) + 1}
    /\ Len(d.tournaments) = Len(before.tournaments) + 1
    /\ d.tournaments[Len(d.tournaments)].stage_number = args.stageNumber
    /\ d.tournaments[Len(d.tournaments)].date = raw.date
    /\ Len(d.leagues) = Len(before.leagues) + Len(raw.leagues)
    /\ Len(d.groups) = Len(before.groups) + FileGroupCount(raw)
    /\ Len(d.matches) = Len(before.matches) + Len(FileMatches(raw))
    /\ \A k \in 1..Len(FileMatches(raw)) :
          LET row == d.matches[Len(before.matches) + k]
              match == FileMatches(raw)[k]
          IN  /\ row.score1 = match.score[1]
              /\ row.score2 = match.score[2]
              /\ RowById(d.players, row.team1_player1_id).name = match.team1[1]
              /\ RowById(d.players, row.team1_player2_id).name = match.team1[2]
              /\ RowById(d.players, row.team2_player1_id).name = match.team2[1]
              /\ RowById(d.players, row.team2_player2_id).name = match.team2[2]
              /\ IF RefereeOf(match) = <<>> THEN row.referee_id = <<>>
                 ELSE /\ row.referee_id # <<>>
                      /\ RowById(d.players, row.referee_id[1]).name
                             = match.referee[1]
    /\ FileNames(raw) \subseteq { d.players[k].name : k \in DOMAIN d.players }
    /\ \A table \in Tables : IsPrefix(before[table], d[table])

(***************************************************************************)
(* C21.  importTournament is atomic.  If a statement of the import fails   *)
(* part-way, the database holds none of the season, tournament, league,    *)
(* group, player or match rows written by that import: it is the committed *)
(* database, which no row of a running import ever reaches.  If the import *)
(* succeeds, all of them are present: the season, one tournament, every    *)
(* league, every group and playoff, every match with its players and       *)
(* referee, and a player row for every name of the file, after the rows    *)
(* that were there before.                                                 *)
(***************************************************************************)
C21_ImportIsAtomic ==
    [][ /\ imp.writing => dbBefore' = dbBefore
        /\ ImportEnds =>
              IF importOutcomes'[imp.run] = "failed"
              THEN db' = dbBefore
              ELSE ImportedAll(db', dbBefore, importArgs[1], ImportData)
      ]_vars

\* An import failed after it had inserted players and a match, and the
\* database holds none of them.
C21_Witness ==
    /\ pc = "idle"
    /\ imp.run \in DOMAIN importOutcomes
    /\ importOutcomes[imp.run] = "failed"
    /\ \E c \in playerCalls : c.run = imp.run /\ c.via = "insert"
    /\ db = dbBefore
    /\ db.matches = <<>>

(***************************************************************************)
(* C22, as stated.  After any sequence of getOrCreatePlayer calls the      *)
(* players table holds exactly one row per distinct name, and every call   *)
(* with the same name returns the same id.  It fails when an import is     *)
(* rolled back: the names it asked for have no row, and a name may get     *)
(* another id afterwards.                                                  *)
(***************************************************************************)
RowsNamed(d, name) ==
    { d.players[k].id : k \in { j \in DOMAIN d.players : d.players[j].name = name } }

\* The calls that returned an id.
ReturnedCalls == { c \in playerCalls : c.via \in {"cache", "row", "insert"} }

C22_SameNameSameId ==
    (pc = "idle" /\ srv.op = "idle") =>
        /\ \A c \in ReturnedCalls : Cardinality(RowsNamed(db, c.name)) = 1
        /\ \A c1 \in ReturnedCalls : \A c2 \in ReturnedCalls :
              c1.name = c2.name => c1.id = c2.id

(***************************************************************************)
(* C22, amended.  The players table never holds two rows with one name,    *)
(* neither as committed nor as the running import sees it.  Among the      *)
(* getOrCreatePlayer calls that returned and were not rolled back, of the  *)
(* import script and of the server module alike, every call returned the   *)
(* id of the one row with its name, so calls with the same name returned   *)
(* the same id, whether answered from the cache, from an existing row or   *)
(* by a fresh insert; and the table holds a row for those names only.      *)
(***************************************************************************)
KeptCalls ==
    { c \in ReturnedCalls :
        ~(c.run \in DOMAIN importOutcomes /\ importOutcomes[c.run] = "failed") }

\* The database the call's process reads.
ViewOf(c) == IF c.run = imp.run THEN db ELSE Committed

C22_OneRowPerName ==
    /\ \A d \in {db, Committed} :
          /\ \A k1 \in DOMAIN d.players : \A k2 \in DOMAIN d.players :
                d.players[k1].name = d.players[k2].name => k1 = k2
          /\ \A k \in DOMAIN d.players :
                \E c \in KeptCalls : c.name = d.players[k].name
    /\ \A c \in KeptCalls : RowsNamed(ViewOf(c), c.name) = {c.id}

\* One name asked for three times, answered by an insert, from the cache
\* and from the existing row, each time with the same id.
C22_Witness ==
    \E c1 \in KeptCalls : \E c2 \in KeptCalls : \E c3 \in KeptCalls :
        /\ c1.name = c2.name /\ c2.name = c3.name
        /\ c1.via = "insert" /\ c2.via = "cache" /\ c3.via = "row"
        /\ c1.id = c2.id /\ c2.id = c3.id


(***************************************************************************)
(* Vocabulary of the season-rating properties.                             *)
(***************************************************************************)
RatingReturned == seasonRating # <<>> /\ seasonRating[1].value # <<>>
LastRating == seasonRating[1].value[1]

\* Over the buckets under the given keys: their points, and their entries.
RECURSIVE SumBuckets(_, _)
SumBuckets(stages, keys) ==
    IF keys = {} THEN 0
    ELSE LET x == CHOOSE y \in keys : TRUE
         IN  stages[x].points + SumBuckets(stages, keys \ {x})

RECURSIVE CountEntries(_, _)
CountEntries(stages, keys) ==
    IF keys = {} THEN 0
    ELSE LET x == CHOOSE y \in keys : TRUE
         IN  Len(stages[x].matches) + CountEntries(stages, keys \ {x})

EntryPoints(bucket) ==
    SumSeq([k \in 1..Len(bucket.matches) |-> bucket.matches[k].points])

\* The rows the call read (the matches of the season) in which the player
\* with this id takes part, and the ids of all their players.
SeasonMatchesOf(id) ==
    SelectSeq(seasonRating[1].allMatches,
              LAMBDA r : id \in {r.p1_id, r.p2_id, r.p3_id, r.p4_id})

SeasonPlayerIds ==
    UNION { {r.p1_id, r.p2_id, r.p3_id, r.p4_id} :
              r \in Range(seasonRating[1].allMatches) }

(***************************************************************************)
(* C23.  In the result of getSeasonRating every player's total is the sum  *)
(* of the points of the player's stage buckets, every bucket's points is   *)
(* the sum of the points of its match entries, every match of the season   *)
(* adds exactly one entry to each of its four players (so a player has as  *)
(* many entries as matches in the season, and every player of a match is   *)
(* listed), and the players are sorted by total in non-increasing order.   *)
(***************************************************************************)
C23_SeasonRatingSums ==
    RatingReturned =>
        LET listed == LastRating.players
        IN  /\ \A k \in DOMAIN listed :
                  LET p == listed[k] IN
                  /\ p.total = SumBuckets(p.stages, DOMAIN p.stages)
                  /\ \A key \in DOMAIN p.stages :
                        p.stages[key].points = EntryPoints(p.stages[key])
                  /\ CountEntries(p.stages, DOMAIN p.stages)
                         = Len(SeasonMatchesOf(p.id))
                  /\ \A j \in DOMAIN listed : listed[j].id = p.id => j = k
            /\ { listed[k].id : k \in DOMAIN listed } = SeasonPlayerIds
            /\ \A r \in Range(seasonRating[1].allMatches) :
                  r.season_id = seasonRating[1].seasonId
            /\ \A k \in 1..(Len(listed) - 1) : listed[k].total >= listed[k + 1].total

\* A rating with a player who has points in two stage buckets, above a
\* player with fewer points.
C23_Witness ==
    /\ RatingReturned
    /\ \E k \in DOMAIN LastRating.players :
          LET p == LastRating.players[k] IN
          /\ Cardinality(DOMAIN p.stages) = 2
          /\ \A key \in DOMAIN p.stages : p.stages[key].points > 0
    /\ LastRating.players[1].total > LastRating.players[Len(LastRating.players)].total

(***************************************************************************)
(* C25.  In every per-match detail entry, for any stored scores, the won   *)
(* flag agrees with the points awarded: won is true exactly when points is *)
(* 2 or 3 and false exactly when points is 0 or 1.                         *)
(* It fails in getSeasonRating for a stored match with equal scores: the   *)
(* players of team 2 get won = true with 0 points.                         *)
(***************************************************************************)
C25_WonAgreesWithPoints ==
    RatingReturned =>
        \A k \in DOMAIN LastRating.players :
            LET p == LastRating.players[k] IN
            \A key \in DOMAIN p.stages :
                \A e \in Range(p.stages[key].matches) :
                    e.won <=> e.points \in {2, 3}

(***************************************************************************)
(* C29.  In the result of getSeasonRating, for any set of imported         *)
(* tournaments of the season, every player's total is the sum of the       *)
(* points found under the keys of the 11 returned stage columns (stages 1  *)
(* to 10 and the final).                                                   *)
(* It fails for a tournament imported with a stage number above 10: its    *)
(* points are in the total and under no column.                            *)
(***************************************************************************)
ColumnPoints(p, column) ==
    LET stageKey == StageKey(column.stageNumber)
    IN  IF stageKey \in DOMAIN p.stages THEN p.stages[stageKey].points ELSE 0

C29_TotalIsSumOfColumns ==
    RatingReturned =>
        /\ Len(LastRating.stages) = 11
        /\ \A k \in DOMAIN LastRating.players :
              LET p == LastRating.players[k] IN
              p.total = SumSeq([c \in 1..Len(LastRating.stages) |->
                                   ColumnPoints(p, LastRating.stages[c])])


(***************************************************************************)
(* The rating table of the main page (ui.js): search, league filter and    *)
(* pagination.  Every handler runs to completion, rendering included, so   *)
(* each event is one step.                                                 *)
(***************************************************************************)
ITEMS_PER_PAGE == 15
MaxPlayers == 80     \* players of the largest rating

\* Sizes of the ratings given to initUI: none, one page, just over one and
\* two pages, exactly three and five pages, and more than five pages.
PlayerCounts ==
    {0, 1, ITEMS_PER_PAGE, ITEMS_PER_PAGE + 1, 2 * ITEMS_PER_PAGE + 1,
     3 * ITEMS_PER_PAGE, 5 * ITEMS_PER_PAGE, MaxPlayers}

RatingLeague1 == <<"V","y","s","sh","a","ya">>
RatingLeague2 == <<"P","e","r","v","a","ya">>

\* Player k is named "Igrok k"; the players play in fours, the odd fours
\* in the first league and the even fours in the second.
RatingPlayer(k) ==
    LET name == <<"I","g","r","o","k"," ">> \o NumberToString(k)
    IN  [id |-> name, name |-> name]

RatingMatch(j) ==
    [league |-> IF j % 2 = 1 THEN RatingLeague1 ELSE RatingLeague2,
     team1 |-> <<RatingPlayer(4 * j - 3).id, RatingPlayer(4 * j - 2).id>>,
     team2 |-> <<RatingPlayer(4 * j - 1).id, RatingPlayer(4 * j).id>>]

RatingData(n) ==
    [players |-> [k \in 1..n |-> RatingPlayer(k)],
     matches |-> [j \in 1..(n \div 4) |-> RatingMatch(j)]]

\* What is typed into the search input, and the options of the select.
SearchTerms ==
    { <<>>, <<"1">>, <<" ","I","G","R"," ">>, <<"k"," ","7">>, <<"z","z">> }
LeagueOptions == {AllLeagues, RatingLeague1, RatingLeague2}

\* String.prototype.trim
RECURSIVE DropTrailingSpaces(_)
DropTrailingSpaces(s) ==
    IF s # <<>> /\ s[Len(s)] = " " THEN DropTrailingSpaces(SubSeq(s, 1, Len(s) - 1))
    ELSE s
trim(s) == DropTrailingSpaces(DropLeadingSpaces(s))

\* String.prototype.includes
includes(s, t) ==
    \E k \in 0..Len(s) : k + Len(t) <= Len(s) /\ SubSeq(s, k + 1, k + Len(t)) = t

getPlayerMatches(ms, playerId) ==
    SelectSeq(ms, LAMBDA match :
        playerId \in Range(match.team1) \/ playerId \in Range(match.team2))

\* applyFilters: the players that pass the search and the league filter.
applyFilters(data, search, league) ==
    LET searchTerm == trim(toLowerCase(search))
        matchesSearch(player) ==
            searchTerm = <<>> \/ includes(toLowerCase(player.name), searchTerm)
        matchesLeague(player) ==
            league = AllLeagues
            \/ \E m \in Range(getPlayerMatches(data.matches, player.id)) :
                   m.league = league
    IN  SelectSeq(data.players,
                  LAMBDA player : matchesSearch(player) /\ matchesLeague(player))

\* Math.ceil(n / ITEMS_PER_PAGE)
TotalPages(n) == (n + ITEMS_PER_PAGE - 1) \div ITEMS_PER_PAGE

Max(a, b) == IF a > b THEN a ELSE b
Min(a, b) == IF a < b THEN a ELSE b

\* The page numbers renderPagination shows; 0 stands for an ellipsis.
pagesToShow(page, totalPages) ==
    IF totalPages <= 5 THEN [k \in 1..totalPages |-> k]
    ELSE LET from == Max(2, page - 1)
             to == Min(totalPages - 1, page + 1)
         IN  <<1>>
             \o (IF page > 3 THEN <<0>> ELSE <<>>)
             \o [k \in 1..(IF to >= from THEN to - from + 1 ELSE 0) |-> from + k - 1]
             \o (IF page < totalPages - 2 THEN <<0>> ELSE <<>>)
             \o <<totalPages>>

\* renderPagination: no controls for at most one page.
renderPagination(page, n) ==
    LET totalPages == TotalPages(n)
    IN  IF totalPages <= 1 THEN NoControls
        ELSE [prevDisabled |-> page = 1,
              pages |-> pagesToShow(page, totalPages),
              nextDisabled |-> page = totalPages,
              shown |-> TRUE]

ratingFrame == <<matches, groupMatches, pc, events, eloLocals, eloResults,
                 stLocals, standingsResults, currentGenderFilter, rawData,
                 rawTournamentDataStore, parseLocals, winLossResults, fnArgs,
                 fnResults, serverVars>>

\* initUI(data)
InitUI ==
    /\ pc = "idle"
    /\ currentData = <<>>
    /\ \E n \in PlayerCounts :
          /\ currentData' = <<RatingData(n)>>
          /\ filteredPlayers' = RatingData(n).players
          /\ paginationControls' = renderPagination(currentPage, n)
    /\ UNCHANGED <<currentPage, searchValue, leagueFilterValue, ratingFrame>>

\* 'input' on the search field.
SearchInput ==
    /\ pc = "idle"
    /\ currentData # <<>>
    /\ \E term \in SearchTerms :
          /\ searchValue' = term
          /\ filteredPlayers' = applyFilters(currentData[1], term, leagueFilterValue)
    /\ currentPage' = 1
    /\ paginationControls' = renderPagination(1, Len(filteredPlayers'))
    /\ UNCHANGED <<currentData, leagueFilterValue, ratingFrame>>

\* 'change' on the league select.
LeagueFilterChange ==
    /\ pc = "idle"
    /\ currentData # <<>>
    /\ \E league \in LeagueOptions :
          /\ leagueFilterValue' = league
          /\ filteredPlayers' = applyFilters(currentData[1], searchValue, league)
    /\ currentPage' = 1
    /\ paginationControls' = renderPagination(1, Len(filteredPlayers'))
    /\ UNCHANGED <<currentData, searchValue, ratingFrame>>

\* Variant of ClickNext whose handler does not look at the last page.
ClickNextUnguarded ==
    /\ pc = "idle"
    /\ paginationControls.shown
    /\ currentPage' = currentPage + 1
    /\ paginationControls' = renderPagination(currentPage', Len(filteredPlayers))
    /\ UNCHANGED <<currentData, filteredPlayers, searchValue, leagueFilterValue,
                   ratingFrame>>

\* The handler of the previous button.
ClickPrev ==
    /\ pc = "idle"
    /\ paginationControls.shown
    /\ IF currentPage > 1
       THEN /\ currentPage' = currentPage - 1
            /\ paginationControls' =
                   renderPagination(currentPage', Len(filteredPlayers))
       ELSE UNCHANGED <<currentPage, paginationControls>>
    /\ UNCHANGED <<currentData, filteredPlayers, searchValue, leagueFilterValue,
                   ratingFrame>>

\* The handler of a page-number button.
ClickPage ==
    /\ pc = "idle"
    /\ paginationControls.shown
    /\ \E page \in Range(paginationControls.pages) \ {0} :
          currentPage' = page
    /\ paginationControls' = renderPagination(currentPage', Len(filteredPlayers))
    /\ UNCHANGED <<currentData, filteredPlayers, searchValue, leagueFilterValue,
                   ratingFrame>>

\* The handler of the next button.
ClickNext ==
    /\ pc = "idle"
    /\ paginationControls.shown
    /\ IF currentPage < TotalPages(Len(filteredPlayers))
       THEN /\ currentPage' = currentPage + 1
            /\ paginationControls' =
                   renderPagination(currentPage', Len(filteredPlayers))
       ELSE UNCHANGED <<currentPage, paginationControls>>
    /\ UNCHANGED <<currentData, filteredPlayers, searchValue, leagueFilterValue,
                   ratingFrame>>

NextRating ==
    \/ InitUI
    \/ SearchInput
    \/ LeagueFilterChange
    \/ ClickPrev
    \/ ClickPage
    \/ ClickNext

InitRating ==
    /\ ServerIdle
    /\ RatingPageIdle
    /\ rawData = NULL
    /\ groupMatches = <<>>
    /\ matches = <<>>
    /\ rawTournamentDataStore = <<>>
    /\ leagueIdx = 1
    /\ groupIdx = 1
    /\ matchIdx = 1
    /\ winLossResults = <<>>
    /\ fnArgs = NULL
    /\ fnResults = EmptyMap
    /\ pc = "idle"
    /\ events = 0
    /\ i = 1
    /\ playerRatings = EmptyMap
    /\ playerGames = EmptyMap
    /\ playerHistory = EmptyMap
    /\ playerOrder = <<>>
    /\ ratingChanges = EmptyMap
    /\ processedMatches = <<>>
    /\ players = <<>>
    /\ eloResults = <<>>
    /\ stI = 1
    /\ stPlayers = EmptyMap
    /\ stOrder = <<>>
    /\ standingsResults = <<>>
    /\ currentGenderFilter = "all"

SpecRating == InitRating /\ [][NextRating]_vars

(***************************************************************************)
(* C30.  After any sequence of search-input, league-filter, previous, next *)
(* and page-number events on the rating table, currentPage is within       *)
(* 1 .. max(1, ceil(filteredPlayers.length / 15)); every search or         *)
(* league-filter change resets currentPage to 1; and previous on the first *)
(* page and next on the last page leave currentPage unchanged.             *)
(***************************************************************************)
LastPage == Max(1, TotalPages(Len(filteredPlayers)))
PageInRange == currentPage \in 1..LastPage

C30_PageStaysInRange ==
    [][ /\ PageInRange'
        /\ (SearchInput \/ LeagueFilterChange) => currentPage' = 1
        /\ (ClickPrev /\ currentPage = 1) => currentPage' = currentPage
        /\ (ClickNext /\ currentPage = LastPage) => currentPage' = currentPage
      ]_vars

\* The last of three pages of a league's players, reached with the next
\* button, which is now disabled.
C30_Witness ==
    /\ leagueFilterValue # AllLeagues
    /\ currentPage = 3
    /\ currentPage = LastPage
    /\ paginationControls.shown
    /\ paginationControls.nextDisabled
    /\ Len(filteredPlayers) < Len(currentData[1].players)

====
